---- MODULE Spec2Model ----
(***************************************************************************)
(* State-machine model of src/wrap.cc, the CPython extension module that   *)
(* exposes RobOptim functions, problems and solvers.                       *)
(*                                                                         *)
(* The specifications share the variables; each starts from the objects  *)
(* it works on and leaves the others idle:                                 *)
(*   SpecFn : one wrapped function object, its three callback slots, the   *)
(*            bind* calls and the compute/gradient/jacobian calls;         *)
(*   SpecPb : one problem, its starting point, bounds and scales, and      *)
(*            createSolver;                                                *)
(*   SpecCs : one problem and addConstraint;                               *)
(*   SpecSv : one solver, solve and minimum;                               *)
(*   SpecOw : the capsules shared with the multiplexer, the function pool  *)
(*            and the problem's constraints;                               *)
(*   SpecPm : the parameter maps of a solver and of a solver state;        *)
(*   SpecEv : the evaluation calls on caller arrays of any length, and     *)
(*            the NumPy views the native callbacks create;                 *)
(*   SpecCv : the handle converters;                                       *)
(*   SpecCa : the calls that need a differentiable function;               *)
(*   SpecSt : the size-checked sets of a problem and of a solver state,    *)
(*            and their optional values;                                   *)
(*   SpecLt : the objects a problem, a finite-difference wrapper and a     *)
(*            logger are built on;                                         *)
(*   SpecTd : the dictionaries of the outcomes of a solver;                *)
(*   SpecRe : callables that rebind the function that evaluates them.      *)
(* Doubles are modelled by integers; NumPy arrays carry their dtype, so    *)
(* that a converted read and a raw read of the same array can differ.      *)
(***************************************************************************)
EXTENDS Integers, Sequences, FiniteSets, TLC

VARIABLES
  kind,              \* dynamic type of the wrapped function object
  inSize,            \* Function::inputSize ()
  outSize,           \* Function::outputSize ()
  alive,             \* the capsule of the function has not been destroyed
  computeCallback_,  \* Function::computeCallback_
  gradientCallback_, \* DifferentiableFunction::gradientCallback_
  jacobianCallback_, \* DifferentiableFunction::jacobianCallback_
  refs,              \* references the function object holds on each PyObject
  status,            \* "running", or "terminated" once std::terminate ran
  lastCall,          \* record of the last exported call on the function
  pbInSize,          \* problem->function ().inputSize ()
  startingPoint,     \* problem->startingPoint (), Absent or a vector
  argumentBounds,    \* problem->argumentBounds ()
  argumentScales,    \* problem->argumentScales ()
  constraints,       \* problem's constraints with their intervals and scales
  handleRefs,        \* Python reference count of each constraint capsule
  solvers,           \* number of solver capsules created
  pbCall,            \* record of the last exported call on the problem
  result_,           \* the solver's stored result: its tag and the solve that set it
  solveCalled,       \* the exported solve () has returned at least once
  outcomes,          \* the outcome capsules minimum () has returned
  svCall,            \* record of the last exported call on the solver
  foreign,           \* the caller still holds its reference on each capsule
  deleted,           \* how many times each capsule's native object was deleted
  callbacks_,        \* Multiplexer::callbacks_, in order
  registry,          \* the registrations made so far and those still standing
  pool_,             \* the function pool: its state, callback and functions
  proc,              \* the process: build type, live containers, how it ended
  parameters,        \* solver.parameters (), name -> (description, value)
  stateParameters,   \* state->parameters (), name -> (description, value)
  pmCall,            \* record of the last exported call on a parameter map
  access,            \* the caller's arrays of the last evaluation, as accessed
  views,             \* NumPy views and argument tuples created and not freed
  converted,         \* record of the last run of a handle converter
  solverState,       \* x (), cost () and constraintViolation () of a state
  stCall,            \* record of the last exported call on the solver state
  built,             \* what the problem and the wrapper were built on
  reent              \* the callable an evaluation is executing, and the
                     \* references on the callables besides the function's

fnVars == <<kind, inSize, outSize, alive, computeCallback_, gradientCallback_,
            jacobianCallback_, refs, status, lastCall>>
pbVars == <<pbInSize, startingPoint, argumentBounds, argumentScales,
            constraints, handleRefs, solvers, pbCall>>
owVars == <<foreign, deleted, callbacks_, registry, pool_, proc>>
pmVars == <<parameters, stateParameters, pmCall>>
evVars == <<access, views>>
stVars == <<solverState, stCall, built, reent>>
bdVars == <<pmVars, evVars, converted, stVars>>
svVars == <<result_, solveCalled, outcomes, svCall, owVars, bdVars>>
vars == <<fnVars, pbVars, svVars>>

(***************************************************************************)
(* Bounds of the model.                                                    *)
(***************************************************************************)
MaxIn == 2
MaxOut == 2

(***************************************************************************)
(* Python objects handed to the bind* calls.                               *)
(*   f1, f2      : plain Python functions (def / lambda)                   *)
(*   obj         : an instance of a class defining __call__                *)
(*   raiser      : a plain Python function whose body raises               *)
(*   notcallable : an object that is not callable                          *)
(***************************************************************************)
Null == "NULL"
PyObjects == {"f1", "f2", "obj", "raiser", "notcallable"}

PyCallable_Check(o) == o \in {"f1", "f2", "obj", "raiser"}
PyFunction_Check(o) == o \in {"f1", "f2", "raiser"}
Raises(o) == o = "raiser"
RaisedMessage(o) == "boom"

Kinds == {"Function", "DifferentiableFunction", "TwiceDifferentiableFunction"}
IsDifferentiable(k) == k \in {"DifferentiableFunction", "TwiceDifferentiableFunction"}

\* The points of evaluation: item k of x is b + k, so that no two items of an
\* x are equal.
XInputs(n) == {[k \in 1..n |-> b + k] : b \in {0, 1}}
FillVals == {0, 9}

RECURSIVE Sum(_)
Sum(s) == IF s = <<>> THEN 0 ELSE Head(s) + Sum(Tail(s))

\* The value a Python callable stores at position (i, j) of the view it is
\* handed, when called at x.  i is the output index, j the input index.
Written(o, x, i, j) ==
  IF o = "f1" THEN 1 + ((Sum(x) + i + j) % 4)
  ELSE 5 + ((Sum(x) + 2 * i + j) % 4)

ConstVector(n, v) == [k \in 1..n |-> v]
ConstMatrix(m, n, v) == [i \in 1..m |-> [j \in 1..n |-> v]]

NoErr == "none"

(***************************************************************************)
(* Outcome of one native evaluation (impl_compute, impl_gradient,          *)
(* impl_jacobian): the contents of the native buffer, the pending Python   *)
(* error, whether a C++ exception left the function, and the callables     *)
(* that were invoked, in order.                                            *)
(***************************************************************************)
EvalReturn(out, pyerr, calls) ==
  [out |-> out, pyerr |-> pyerr, thrown |-> FALSE, what |-> NoErr, calls |-> calls]
EvalThrow(out, what, calls) ==
  [out |-> out, pyerr |-> NoErr, thrown |-> TRUE, what |-> what, calls |-> calls]

\* PyErr_Fetch clears the pending error; when there was one, a
\* std::runtime_error carrying its text is thrown.
checkPythonError(out, pyerr, calls) ==
  IF pyerr # NoErr THEN EvalThrow(out, pyerr, calls)
  ELSE EvalReturn(out, NoErr, calls)

\* PyEval_CallObject (callback, arglist) on a 1-d view of n doubles: the
\* callable fills the view, or raises and leaves it as it was.
CallOnVector(callback, view, x, functionId) ==
  IF Raises(callback) THEN [out |-> view, pyerr |-> RaisedMessage(callback)]
  ELSE [out |-> [k \in 1..Len(view) |-> Written(callback, x, functionId, k - 1)],
        pyerr |-> NoErr]

impl_compute(callback, result, argument) ==
  IF callback = Null
    THEN EvalReturn(result, "compute callback not set", <<>>)
  ELSE IF ~PyFunction_Check(callback)
    THEN EvalReturn(result, "compute callback is not a function", <<>>)
  ELSE LET called == [out |-> IF Raises(callback) THEN result
                              ELSE [k \in 1..Len(result) |->
                                      Written(callback, argument, k - 1, 0)],
                      pyerr |-> IF Raises(callback) THEN RaisedMessage(callback)
                                ELSE NoErr]
       IN checkPythonError(called.out, called.pyerr, <<callback>>)

impl_gradient(callback, gradient, argument, functionId) ==
  IF callback = Null
    THEN EvalReturn(gradient, "gradient callback not set", <<>>)
  ELSE IF ~PyFunction_Check(callback)
    THEN EvalReturn(gradient, "gradient callback is not a function", <<>>)
  ELSE LET called == CallOnVector(callback, gradient, argument, functionId)
       IN checkPythonError(called.out, called.pyerr, <<callback>>)

\* roboptim::Function::operator () (x): a zero-initialised result vector is
\* handed to impl_compute and returned by value.
FunctionCall(callback, n, x) == impl_compute(callback, ConstVector(n, 0), x)

\* roboptim::DifferentiableFunction::gradient (x, functionId): likewise.
GradientCall(callback, n, x, functionId) ==
  impl_gradient(callback, ConstVector(n, 0), x, functionId)

\* roboptim::DifferentiableFunction::impl_jacobian, the parent's default:
\* row i of the Jacobian is gradient (x, i), one call per row.
DefaultJacobian(gcallback, m, n, jacobian, x) ==
  LET rows == [i \in 1..m |-> GradientCall(gcallback, n, x, i - 1)]
  IN IF rows[1].thrown THEN EvalThrow(jacobian, rows[1].what, rows[1].calls)
     ELSE EvalReturn([i \in 1..m |-> rows[i].out], rows[m].pyerr,
                     IF rows[1].calls = <<>> THEN <<>>
                     ELSE [i \in 1..m |-> gcallback])

impl_jacobian(jcallback, gcallback, m, n, jacobian, x) ==
  IF jcallback = Null
    THEN DefaultJacobian(gcallback, m, n, jacobian, x)
  ELSE IF ~PyFunction_Check(jcallback)
    THEN EvalReturn(jacobian, "jacobian callback is not a function", <<>>)
  ELSE LET called ==
             [out |-> IF Raises(jcallback) THEN jacobian
                      ELSE [i \in 1..m |-> [j \in 1..n |->
                              Written(jcallback, x, i - 1, j - 1)]],
              pyerr |-> IF Raises(jcallback) THEN RaisedMessage(jcallback)
                        ELSE NoErr]
       IN checkPythonError(called.out, called.pyerr, <<jcallback>>)

\* roboptim::DifferentiableFunction::jacobian (x): a zero matrix is handed
\* to impl_jacobian and returned by value.
JacobianCall(jcallback, gcallback, m, n, x) ==
  impl_jacobian(jcallback, gcallback, m, n, ConstMatrix(m, n, 0), x)

(***************************************************************************)
(* Callback slots.  A setter returns the new slot and the Py_DECREF and    *)
(* Py_INCREF it performed, in order.                                       *)
(***************************************************************************)
SlotChange(slot, decref, incref) ==
  [slot |-> slot, decref |-> decref, incref |-> incref]

setComputeCallback(current, callback) ==
  IF callback = current THEN SlotChange(current, <<>>, <<>>)
  ELSE SlotChange(callback,
                  IF current # Null THEN <<current>> ELSE <<>>,
                  IF callback # Null THEN <<callback>> ELSE <<>>)

setGradientCallback(current, callback) ==
  SlotChange(callback,
             IF current # Null THEN <<current>> ELSE <<>>,
             IF callback # Null THEN <<callback>> ELSE <<>>)

\* setJacobianCallback with the Py_DECREF of the previous callable left out.
setJacobianCallbackNoRelease(current, callback) ==
  SlotChange(callback, <<>>, IF callback # Null THEN <<callback>> ELSE <<>>)

setJacobianCallback(current, callback) ==
  SlotChange(callback,
             IF current # Null THEN <<current>> ELSE <<>>,
             IF callback # Null THEN <<callback>> ELSE <<>>)

\* ~DifferentiableFunction () then ~Function (): the references released.
DestructorDifferentiableFunction(gcallback, jcallback) ==
  (IF gcallback # Null THEN <<gcallback>> ELSE <<>>)
    \o (IF jcallback # Null THEN <<jcallback>> ELSE <<>>)

DestructorFunction(ccallback) ==
  IF ccallback # Null THEN <<ccallback>> ELSE <<>>

Count(seq, o) == Cardinality({k \in 1..Len(seq) : seq[k] = o})

\* The reference counts after the given Py_DECREF and Py_INCREF calls.
RefsAfter(r, decref, incref) ==
  [o \in PyObjects |-> r[o] - Count(decref, o) + Count(incref, o)]

NoCall ==
  [op |-> "none", obj |-> Null, prev |-> Null, x |-> <<>>, id |-> 0,
   before |-> <<>>, after |-> <<>>, ret |-> "none", err |-> NoErr,
   calls |-> <<>>, decref |-> <<>>, incref |-> <<>>]

(***************************************************************************)
(* Problem-side values, fixed here so that both initial predicates can     *)
(* name them.                                                              *)
(***************************************************************************)
\* boost::optional<vector_t>, empty.
Absent == [set |-> FALSE, value |-> <<>>]
Present(v) == [set |-> TRUE, value |-> v]

NoPbCall ==
  [op |-> "none", arg |-> <<>>, fn |-> "none", ret |-> "none", err |-> NoErr,
   before |-> <<>>, increfs |-> 0, decrefs |-> 0]

\* The tags of solver_t::result_t, a boost::variant.
SOLVER_NO_SOLUTION == "SOLVER_NO_SOLUTION"
SOLVER_VALUE == "SOLVER_VALUE"
SOLVER_VALUE_WARNINGS == "SOLVER_VALUE_WARNINGS"
SOLVER_ERROR == "SOLVER_ERROR"

\* A solver that has not solved: solve 0 of it left no solution.
Unsolved == [which |-> SOLVER_NO_SOLUTION, solve |-> 0]

NoSvCall ==
  [op |-> "none", arg |-> <<>>, ret |-> "none", err |-> NoErr,
   solveCalled |-> FALSE, before |-> <<>>, made |-> 0, refs |-> <<>>,
   dict |-> <<>>]

\* No pool has been created.
NoPool ==
  [state |-> "none", callback |-> Null, functions |-> <<>>, leaked |-> <<>>,
   given |-> <<>>]

\* An empty std::map.
EmptyMap == [name \in {} |-> 0]

\* A get records the call before it and that call's argument, and the
\* dictionary it returns.
NoPmCall ==
  [op |-> "none", arg |-> [t |-> "none", items |-> <<>>], ret |-> "none",
   err |-> NoErr, before |-> EmptyMap, prev |-> "none", out |-> EmptyMap]

NoAccess ==
  [op |-> "none", x |-> <<>>, before |-> <<>>, after |-> <<>>, xRead |-> 0,
   outWritten |-> 0, ret |-> "none", err |-> NoErr, calls |-> <<>>]

NoViews == [arrays |-> 0, arglists |-> 0, calls |-> 0]

\* The null pointer; native objects are records.
NullPtr == [null |-> TRUE]

NoConversion ==
  [converter |-> "none",
   obj |-> [capsule |-> FALSE, name |-> "none", ptr |-> NullPtr],
   ret |-> 0, err |-> NoErr, address |-> NullPtr, crashed |-> FALSE]

\* No solver state has been handed to a callback.
NoState == [x |-> <<>>, cost |-> Absent, constraintViolation |-> Absent]
NoStCall ==
  [op |-> "none", arg |-> <<>>, ret |-> "none", err |-> NoErr,
   before |-> NoState]

\* The function the live problem and the live finite-difference wrapper
\* were built on, and the state of the solver a logger is built on.
NoBuilt == [problem |-> "none", wrapper |-> "none", solver |-> "none"]

\* No evaluation is executing a callable.
NoReent ==
  [running |-> Null, held |-> [o \in PyObjects |-> 0], destroyed |-> {},
   returned |-> FALSE]

\* No parameter map, evaluation buffer or handle has been touched.
BdIdle ==
  /\ reent = NoReent
  /\ built = NoBuilt
  /\ solverState = NoState
  /\ stCall = NoStCall
  /\ parameters = EmptyMap
  /\ stateParameters = EmptyMap
  /\ pmCall = NoPmCall
  /\ access = NoAccess
  /\ views = NoViews
  /\ converted = NoConversion

\* No capsule besides those of the specification at hand exists.
OwIdle ==
  /\ BdIdle
  /\ foreign = <<>>
  /\ deleted = <<>>
  /\ callbacks_ = <<>>
  /\ registry = [next |-> 1, live |-> {}, shared |-> {}]
  /\ pool_ = NoPool
  /\ proc = [build |-> "release", use |-> "none", problem |-> FALSE,
             multiplexer |-> FALSE, aborted |-> "no"]

\* No solver has been created.
SvIdle ==
  /\ result_ = Unsolved
  /\ solveCalled = FALSE
  /\ outcomes = <<>>
  /\ svCall = NoSvCall
  /\ OwIdle

\* No problem has been created.
PbIdle ==
  /\ pbInSize = 0
  /\ startingPoint = Absent
  /\ argumentBounds = <<>>
  /\ argumentScales = <<>>
  /\ constraints = <<>>
  /\ handleRefs = <<>>
  /\ solvers = 0
  /\ pbCall = NoPbCall
  /\ SvIdle

(***************************************************************************)
(* createFunction<T> (inSize, outSize, name): the state right after the    *)
(* constructor, with the three callback slots empty.                       *)
(***************************************************************************)
InitFn ==
  /\ kind \in Kinds
  /\ inSize \in 1..MaxIn
  /\ outSize \in 1..MaxOut
  /\ alive = TRUE
  /\ computeCallback_ = Null
  /\ gradientCallback_ = Null
  /\ jacobianCallback_ = Null
  /\ refs = [o \in PyObjects |-> 0]
  /\ status = "running"
  /\ lastCall = NoCall
  /\ PbIdle

Callable == status = "running" /\ alive

\* What a bind* call records when it rejects its arguments.
BindRejected(op, callback, prev, err) ==
  [NoCall EXCEPT !.op = op, !.obj = callback, !.prev = prev,
                 !.ret = "error", !.err = err]

\* What a bind* call records when it went through the setter.
BindDone(op, callback, prev, change) ==
  [NoCall EXCEPT !.op = op, !.obj = callback, !.prev = prev, !.ret = "ok",
                 !.decref = change.decref, !.incref = change.incref]

bindCompute(callback) ==
  /\ Callable
  /\ IF ~PyCallable_Check(callback)
     THEN /\ lastCall' = BindRejected("bindCompute", callback, computeCallback_,
                                      "2nd argument must be callable")
          /\ UNCHANGED <<computeCallback_, refs>>
     ELSE LET change == setComputeCallback(computeCallback_, callback)
          IN /\ computeCallback_' = change.slot
             /\ refs' = RefsAfter(refs, change.decref, change.incref)
             /\ lastCall' = BindDone("bindCompute", callback, computeCallback_, change)
  /\ UNCHANGED <<kind, inSize, outSize, alive, gradientCallback_,
                 jacobianCallback_, status, pbVars, svVars>>

bindGradient(callback) ==
  /\ Callable
  /\ IF ~IsDifferentiable(kind)
     THEN /\ lastCall' = BindRejected("bindGradient", callback, gradientCallback_,
               "instance of DifferentiableFunction expected as first argument")
          /\ UNCHANGED <<gradientCallback_, refs>>
     ELSE IF ~PyCallable_Check(callback)
     THEN /\ lastCall' = BindRejected("bindGradient", callback, gradientCallback_,
                                      "2nd argument must be callable")
          /\ UNCHANGED <<gradientCallback_, refs>>
     ELSE LET change == setGradientCallback(gradientCallback_, callback)
          IN /\ gradientCallback_' = change.slot
             /\ refs' = RefsAfter(refs, change.decref, change.incref)
             /\ lastCall' = BindDone("bindGradient", callback, gradientCallback_, change)
  /\ UNCHANGED <<kind, inSize, outSize, alive, computeCallback_,
                 jacobianCallback_, status, pbVars, svVars>>

bindJacobian(callback) ==
  /\ Callable
  /\ IF ~IsDifferentiable(kind)
     THEN /\ lastCall' = BindRejected("bindJacobian", callback, jacobianCallback_,
               "instance of DifferentiableFunction expected as first argument")
          /\ UNCHANGED <<jacobianCallback_, refs>>
     ELSE IF ~PyCallable_Check(callback)
     THEN /\ lastCall' = BindRejected("bindJacobian", callback, jacobianCallback_,
                                      "2nd argument must be callable")
          /\ UNCHANGED <<jacobianCallback_, refs>>
     ELSE LET change == setJacobianCallback(jacobianCallback_, callback)
          IN /\ jacobianCallback_' = change.slot
             /\ refs' = RefsAfter(refs, change.decref, change.incref)
             /\ lastCall' = BindDone("bindJacobian", callback, jacobianCallback_, change)
  /\ UNCHANGED <<kind, inSize, outSize, alive, computeCallback_,
                 gradientCallback_, status, pbVars, svVars>>

(***************************************************************************)
(* The exported evaluation calls.  `before` is the caller's output array   *)
(* as it is handed in.  The value returned by the native call is assigned  *)
(* to the caller's array first, PyErr_Occurred () is tested afterwards.  A *)
(* C++ exception thrown below leaves the exported function, which has no   *)
(* handler, and the CPython frames under it: std::terminate ends the       *)
(* process before the assignment.                                          *)
(***************************************************************************)
Evaluated(op, x, id, before, r) ==
  IF r.thrown
  THEN [NoCall EXCEPT !.op = op, !.x = x, !.id = id, !.before = before,
                      !.after = before, !.ret = "terminated", !.err = r.what,
                      !.calls = r.calls]
  ELSE [NoCall EXCEPT !.op = op, !.x = x, !.id = id, !.before = before,
                      !.after = r.out,
                      !.ret = IF r.pyerr # NoErr THEN "error" ELSE "ok",
                      !.err = r.pyerr, !.calls = r.calls]

NotDifferentiable(op, x, id, before) ==
  [NoCall EXCEPT !.op = op, !.x = x, !.id = id, !.before = before,
                 !.after = before, !.ret = "error",
                 !.err = "argument 1 should be a differentiable function object"]

compute(x, fill) ==
  /\ Callable
  /\ lastCall' = Evaluated("compute", x, 0, ConstVector(outSize, fill),
                           FunctionCall(computeCallback_, outSize, x))
  /\ status' = IF lastCall'.ret = "terminated" THEN "terminated" ELSE status
  /\ UNCHANGED <<kind, inSize, outSize, alive, computeCallback_,
                 gradientCallback_, jacobianCallback_, refs, pbVars, svVars>>

gradient(x, fill, functionId) ==
  /\ Callable
  /\ lastCall' =
       IF ~IsDifferentiable(kind)
       THEN NotDifferentiable("gradient", x, functionId, ConstVector(inSize, fill))
       ELSE Evaluated("gradient", x, functionId, ConstVector(inSize, fill),
                      GradientCall(gradientCallback_, inSize, x, functionId))
  /\ status' = IF lastCall'.ret = "terminated" THEN "terminated" ELSE status
  /\ UNCHANGED <<kind, inSize, outSize, alive, computeCallback_,
                 gradientCallback_, jacobianCallback_, refs, pbVars, svVars>>

jacobian(x, fill) ==
  /\ Callable
  /\ lastCall' =
       IF ~IsDifferentiable(kind)
       THEN NotDifferentiable("jacobian", x, 0, ConstMatrix(outSize, inSize, fill))
       ELSE Evaluated("jacobian", x, 0, ConstMatrix(outSize, inSize, fill),
                      JacobianCall(jacobianCallback_, gradientCallback_,
                                   outSize, inSize, x))
  /\ status' = IF lastCall'.ret = "terminated" THEN "terminated" ELSE status
  /\ UNCHANGED <<kind, inSize, outSize, alive, computeCallback_,
                 gradientCallback_, jacobianCallback_, refs, pbVars, svVars>>

\* detail::destructor<T>: the last reference on the capsule is released and
\* the native object deleted.
destructor ==
  /\ Callable
  /\ LET released ==
           (IF IsDifferentiable(kind)
            THEN DestructorDifferentiableFunction(gradientCallback_,
                                                  jacobianCallback_)
            ELSE <<>>)
           \o DestructorFunction(computeCallback_)
     IN /\ refs' = RefsAfter(refs, released, <<>>)
        /\ lastCall' = [NoCall EXCEPT !.op = "destructor", !.ret = "ok",
                                      !.decref = released]
  /\ alive' = FALSE
  /\ computeCallback_' = Null
  /\ gradientCallback_' = Null
  /\ jacobianCallback_' = Null
  /\ UNCHANGED <<kind, inSize, outSize, status, pbVars, svVars>>

NextFn ==
  \/ \E o \in PyObjects : bindCompute(o)
  \/ \E o \in PyObjects : bindGradient(o)
  \/ \E o \in PyObjects : bindJacobian(o)
  \/ \E x \in XInputs(inSize), fill \in FillVals : compute(x, fill)
  \/ \E x \in XInputs(inSize), fill \in FillVals, id \in 0..(outSize - 1) :
       gradient(x, fill, id)
  \/ \E x \in XInputs(inSize), fill \in FillVals : jacobian(x, fill)
  \/ destructor

SpecFn == InitFn /\ [][NextFn]_vars

(***************************************************************************)
(* Properties of the function object (SpecFn).                             *)
(***************************************************************************)
BindOps == {"bindCompute", "bindGradient", "bindJacobian"}
EvalOps == {"compute", "gradient", "jacobian"}

SlotOf(op) ==
  IF op = "bindCompute" THEN computeCallback_
  ELSE IF op = "bindGradient" THEN gradientCallback_
  ELSE jacobianCallback_

\* The number of slots of the function in which o is bound.
SlotsHolding(o) ==
  (IF computeCallback_ = o THEN 1 ELSE 0)
  + (IF gradientCallback_ = o THEN 1 ELSE 0)
  + (IF jacobianCallback_ = o THEN 1 ELSE 0)

\* The last call evaluated a capability that has no callable behind it.
UnboundEvaluated ==
  \/ lastCall.op = "compute" /\ computeCallback_ = Null
  \/ lastCall.op = "gradient" /\ IsDifferentiable(kind) /\ gradientCallback_ = Null
  \/ /\ lastCall.op = "jacobian" /\ IsDifferentiable(kind)
     /\ jacobianCallback_ = Null /\ gradientCallback_ = Null

\* C1: evaluating an unbound capability (compute without a compute callable,
\* gradient without a gradient callable, jacobian with neither a jacobian
\* nor a gradient callable) ends in a "callback not set" error and the
\* caller's output array holds afterwards what it held before the call.
C1_UnboundFailsOutputUntouched ==
  UnboundEvaluated =>
    /\ lastCall.ret = "error"
    /\ lastCall.err \in {"compute callback not set", "gradient callback not set"}
    /\ lastCall.after = lastCall.before

\* C2: with a gradient callable bound (one that does not raise) and no
\* jacobian callable bound, jacobian (x) does not fail and its row i is what
\* gradient (x, i) yields, for every row; and a jacobian call consults the
\* jacobian callable if and only if one is bound.
C2_DefaultJacobianLaw ==
  /\ ( /\ lastCall.op = "jacobian" /\ IsDifferentiable(kind)
       /\ gradientCallback_ # Null /\ ~Raises(gradientCallback_)
       /\ jacobianCallback_ = Null )
     => /\ lastCall.ret = "ok"
        /\ \A i \in 1..outSize :
             lastCall.after[i] =
               GradientCall(gradientCallback_, inSize, lastCall.x, i - 1).out
  /\ ( lastCall.op = "jacobian" /\ IsDifferentiable(kind)
       /\ lastCall.ret # "terminated" )
     => ((jacobianCallback_ # Null) <=> (Count(lastCall.calls, jacobianCallback_) > 0))

\* C3: an object that bindCompute accepted (it is callable) and that does not
\* raise is invoked exactly once by a later compute, the caller's output
\* array then holds exactly the values it wrote, in order, and no evaluation
\* rejects a bound callable as "not a function".
C3_AcceptedCallableIsUsable ==
  /\ ( lastCall.op = "compute" /\ computeCallback_ # Null
       /\ ~Raises(computeCallback_) )
     => /\ lastCall.ret = "ok"
        /\ lastCall.calls = <<computeCallback_>>
        /\ lastCall.after =
             [k \in 1..outSize |-> Written(computeCallback_, lastCall.x, k - 1, 0)]
  /\ lastCall.op \in EvalOps
     => lastCall.err \notin {"compute callback is not a function",
                             "gradient callback is not a function",
                             "jacobian callback is not a function"}

\* C4: the function holds on every callable exactly as many references as it
\* has slots bound to it, none once it is destroyed, and a bind that replaces
\* a different callable releases the old one once and acquires the new one
\* once.
C4_ReferenceBalance ==
  /\ \A o \in PyObjects : refs[o] = SlotsHolding(o)
  /\ ~alive => \A o \in PyObjects : refs[o] = 0
  /\ ( lastCall.op \in BindOps /\ lastCall.ret = "ok"
       /\ lastCall.prev # Null /\ lastCall.prev # lastCall.obj )
     => /\ lastCall.decref = <<lastCall.prev>>
        /\ lastCall.incref = <<lastCall.obj>>

\* A callable bound in two slots, right after a bind replaced another
\* callable in one of them.
C4_Witness ==
  /\ lastCall.op = "bindJacobian" /\ lastCall.ret = "ok"
  /\ lastCall.prev # Null /\ lastCall.prev # lastCall.obj
  /\ computeCallback_ = jacobianCallback_
  /\ refs[jacobianCallback_] = 2

\* C5: binding the callable a slot already holds performs no Py_DECREF and
\* no Py_INCREF on it and leaves it in the slot, for each of the three bind
\* calls.
C5_RebindSameIsNoOp ==
  ( lastCall.op \in BindOps /\ lastCall.ret = "ok"
    /\ lastCall.obj = lastCall.prev )
  => /\ lastCall.decref = <<>>
     /\ lastCall.incref = <<>>
     /\ SlotOf(lastCall.op) = lastCall.obj

\* C6: when a bound callable raises during compute, gradient or jacobian,
\* the call returns to its caller with an error that carries the callable's
\* message.
C6_RaiseReachesCaller ==
  ( lastCall.op \in EvalOps
    /\ \E k \in 1..Len(lastCall.calls) : Raises(lastCall.calls[k]) )
  => /\ lastCall.ret = "error"
     /\ lastCall.err = RaisedMessage("raiser")
     /\ status = "running"

(***************************************************************************)
(* The problem (SpecPb).                                                   *)
(*                                                                         *)
(* A NumPy array is [dtype, shape, data]: data is a sequence of numbers    *)
(* for one dimension and a sequence of rows for two.  dtype "f8" is        *)
(* double, "i8" is 64-bit integer; both have 8-byte items.                 *)
(***************************************************************************)
MaxConstraints == 2
MaxSolvers == 1

DTypes == {"f8", "i8"}
BaseVals == {0, 1}

\* The double whose 8 bytes are those of the 64-bit integer v: 0.0 for 0, a
\* subnormal number (v * 2^-1074) otherwise, coded apart from every value
\* that the inputs hold.
BitsAsDouble(v) == IF v = 0 THEN 0 ELSE 1000 + v

\* PyArray_FROM_OTF (a, NPY_DOUBLE, ...): the array itself when it holds
\* doubles, else a copy cast to double, value for value.
PyArray_FROM_OTF(a) == [a EXCEPT !.dtype = "f8"]

\* * (double*) PyArray_GETPTR2 (a, i, j) : the bytes of item (i, j) read as
\* a double, whatever the array's dtype.
RawDouble2(a, i, j) ==
  IF a.dtype = "f8" THEN a.data[i][j] ELSE BitsAsDouble(a.data[i][j])

\* PyArray_DIM (a, k): size k of the array; past the number of dimensions
\* the read leaves the array's dimensions and yields the word found there.
PyArray_DIM(a, k, junk) == IF k <= Len(a.shape) THEN a.shape[k] ELSE junk

\* The words that may follow the dimensions of an array of one dimension;
\* NumPy keeps the strides there: the item size, 2 bytes for 16-bit items
\* and 8 for doubles.
DimJunk == {2, 8}
\* A double read outside the items of an array: any value, one zero and
\* one coded apart from every value that the inputs hold.
ItemJunk == {0, 2000}
ArrayJunk == [dim : DimJunk, item : ItemJunk]

\* * (double*) PyArray_GETPTR2 (a, i, j) on the object passed in.
PyArray_GETPTR2(a, i, j, junk) ==
  IF Len(a.shape) = 2 THEN RawDouble2(a, i, j) ELSE junk

\* Eigen::Map over PyArray_DATA of a 1-d array of doubles.
MapVector(a, n) == [k \in 1..n |-> a.data[k]]

\* Function::makeInfiniteInterval () and the unit scale, the defaults of a
\* new problem.
Infinity == 1000 * 1000
InfiniteInterval == <<-Infinity, Infinity>>

\* Arrays a caller may pass: 1-d of length len, 2-d of rows x cols; item k
\* (or item (i, j)) depends on its position, so that a permutation shows.
Array1(dtype, len, b) ==
  [dtype |-> dtype, shape |-> <<len>>, data |-> [k \in 1..len |-> b + k]]
Array2(dtype, rows, cols, b) ==
  [dtype |-> dtype, shape |-> <<rows, cols>>,
   data |-> [i \in 1..rows |-> [j \in 1..cols |-> b + i + 2 * (j - 1)]]]

VectorInputs(n) ==
  {Array1(d, len, b) : d \in DTypes, len \in {n, n + 1}, b \in BaseVals}
MatrixInputs(n) ==
  {Array2(d, rows, cols, b) :
     d \in DTypes, rows \in {n, n + 1}, cols \in {2, 3}, b \in BaseVals}

\* Constraint function capsules the caller holds: g1 and g2 wrap a
\* DifferentiableFunction with 1 and 2 outputs, h1 wraps a plain Function.
CFns == {"g1", "g2", "h1"}
\* Every function capsule taken for a differentiable one.
CfnDifferentiableAny(f) == TRUE

CfnDifferentiable(f) == f \in {"g1", "g2"}
CfnOut(f) == IF f = "g2" THEN 2 ELSE 1

\* Third argument of addConstraint: a list, an array, or another object.
BoundsInputs ==
  {[t |-> "list", len |-> len, floats |-> fl, lo |-> 0, hi |-> 1] :
     len \in {1, 2, 3}, fl \in BOOLEAN}
  \cup {[t |-> "array", a |-> Array2("f8", rows, cols, 0)] :
          rows \in {1, 2, 3}, cols \in {2, 3}}
  \cup {[t |-> "array",
          a |-> [dtype |-> "f8", shape |-> <<2>>, data |-> << <<0, 1>> >>]]}
  \cup {[t |-> "tuple"]}

PluginNames == {"ipopt", "unknown-plugin"}
\* Whether the plug-in loader finds the named solver plug-in.
PluginLoads(name) == name = "ipopt"

Snapshot ==
  [startingPoint |-> startingPoint, argumentBounds |-> argumentBounds,
   argumentScales |-> argumentScales, constraints |-> constraints,
   handleRefs |-> handleRefs, solvers |-> solvers]

\* createProblem (cost): a problem over a differentiable cost function.
InitPb ==
  /\ pbInSize \in 1..MaxIn
  /\ startingPoint = Absent
  /\ argumentBounds = [i \in 1..pbInSize |-> InfiniteInterval]
  /\ argumentScales = [i \in 1..pbInSize |-> 1]
  /\ constraints = <<>>
  /\ handleRefs = [f \in CFns |-> 1]
  /\ solvers = 0
  /\ pbCall = NoPbCall
  /\ kind = "Function" /\ inSize = 1 /\ outSize = 1 /\ alive = FALSE
  /\ computeCallback_ = Null /\ gradientCallback_ = Null
  /\ jacobianCallback_ = Null /\ refs = [o \in PyObjects |-> 0]
  /\ status = "running" /\ lastCall = NoCall
  /\ SvIdle

PbReturn(op, arg, ret, err) ==
  [NoPbCall EXCEPT !.op = op, !.arg = arg, !.ret = ret, !.err = err,
                   !.before = Snapshot]

\* Py_None is the array of dtype "None".
PyNone == [dtype |-> "None", shape |-> <<>>, data |-> <<>>]

getStartingPoint ==
  IF ~startingPoint.set THEN PyNone
  ELSE [dtype |-> "f8", shape |-> <<pbInSize>>, data |-> startingPoint.value]

setStartingPoint(a) ==
  /\ LET startingPointNumpy == PyArray_FROM_OTF(a)
     IN IF startingPointNumpy.shape[1] # pbInSize
        THEN /\ pbCall' = PbReturn("setStartingPoint", a, "error", "invalid size")
             /\ UNCHANGED startingPoint
        ELSE /\ startingPoint' = Present(MapVector(startingPointNumpy, pbInSize))
             /\ pbCall' = PbReturn("setStartingPoint", a, "ok", NoErr)
  /\ UNCHANGED <<pbInSize, argumentBounds, argumentScales, constraints,
                 handleRefs, solvers, fnVars, svVars>>

getArgumentBounds ==
  [dtype |-> "f8", shape |-> <<pbInSize, 2>>,
   data |-> [i \in 1..pbInSize |->
               <<argumentBounds[i][1], argumentBounds[i][2]>>]]

\* The sizes are tested on, and the items read from, the object passed in,
\* not its conversion to an array of doubles; the number of dimensions is
\* not tested, so that the second size of an array of one dimension is
\* the word junk.dim after its dimensions and its items are read through
\* a stride that is not there.
setArgumentBounds(bounds, junk) ==
  /\ IF \/ PyArray_DIM(bounds, 1, junk.dim) # pbInSize
        \/ PyArray_DIM(bounds, 2, junk.dim) # 2
     THEN /\ pbCall' = PbReturn("setArgumentBounds", bounds, "error", "invalid size")
          /\ UNCHANGED argumentBounds
     ELSE /\ argumentBounds' =
               [i \in 1..pbInSize |->
                  <<PyArray_GETPTR2(bounds, i, 1, junk.item),
                    PyArray_GETPTR2(bounds, i, 2, junk.item)>>]
          /\ pbCall' = PbReturn("setArgumentBounds", bounds, "ok", NoErr)
  /\ UNCHANGED <<pbInSize, startingPoint, argumentScales, constraints,
                 handleRefs, solvers, fnVars, svVars>>

getArgumentScales ==
  [dtype |-> "f8", shape |-> <<pbInSize>>,
   data |-> [i \in 1..pbInSize |-> argumentScales[i]]]

setArgumentScales(a) ==
  /\ LET scalesNumpy == PyArray_FROM_OTF(a)
     IN IF scalesNumpy.shape[1] # pbInSize
        THEN /\ pbCall' = PbReturn("setArgumentScales", a, "error", "invalid size")
             /\ UNCHANGED argumentScales
        ELSE /\ argumentScales' = MapVector(scalesNumpy, pbInSize)
             /\ pbCall' = PbReturn("setArgumentScales", a, "ok", NoErr)
  /\ UNCHANGED <<pbInSize, startingPoint, argumentBounds, constraints,
                 handleRefs, solvers, fnVars, svVars>>

(***************************************************************************)
(* addConstraint (problem, function, bounds).                              *)
(***************************************************************************)
is_pair(b) == b.t = "list" /\ b.len = 2
is_np_array(b) == b.t = "array" /\ Len(b.a.shape) = 2

\* detail::to_shared_ptr: Py_INCREF on the capsule.
to_shared_ptr(r, f) == [r EXCEPT ![f] = @ + 1]

\* A pyobject_deleter that forgets its Py_DECREF.
pyobject_deleterNoDecref(r, f) == r

\* detail::pyobject_deleter, run when the last shared_ptr goes away:
\* Py_DECREF on the capsule.
pyobject_deleter(r, f) == [r EXCEPT ![f] = @ - 1]

\* The pair test with the output size left out.
PairBoundsFitAnySize(b, out) == is_pair(b)

\* "Bounds = pair": a list of two, for a constraint with one output.
PairBoundsFit(b, out) == is_pair(b) /\ out = 1

\* "Bounds = vector of pairs": an array of shape (outputSize, 2).
ArrayBoundsFit(b, out) ==
  is_np_array(b) /\ b.a.shape[1] = out /\ b.a.shape[2] = 2

\* Problem::addConstraint (constraint, interval), with its unit scale.
WithInterval(f, lo, hi) ==
  [fn |-> f, bounds |-> << <<lo, hi>> >>, scales |-> <<1>>]

\* Problem::addConstraint (constraint, bounds, scales).
WithIntervals(f, a, out) ==
  [fn |-> f,
   bounds |-> [i \in 1..out |-> <<RawDouble2(a, i, 1), RawDouble2(a, i, 2)>>],
   scales |-> [i \in 1..out |-> 1]]

AddRejected(f, b, err, acquired) ==
  [PbReturn("addConstraint", b, "error", err)
     EXCEPT !.fn = f, !.increfs = acquired, !.decrefs = acquired]

AddDone(f, b) ==
  [PbReturn("addConstraint", b, "ok", NoErr) EXCEPT !.fn = f, !.increfs = 1]

addConstraint(f, b) ==
  /\ Len(constraints) < MaxConstraints
  /\ IF ~CfnDifferentiable(f)
     THEN /\ pbCall' = AddRejected(f, b,
                 "2nd argument must be a differentiable function", 0)
          /\ UNCHANGED <<constraints, handleRefs>>
     ELSE IF ~is_pair(b) /\ ~is_np_array(b)
     THEN /\ pbCall' = AddRejected(f, b,
                 "3rd argument must be a (n x 2) NumPy array or a list of size 2.", 0)
          /\ UNCHANGED <<constraints, handleRefs>>
     ELSE LET held == to_shared_ptr(handleRefs, f)
          IN IF PairBoundsFit(b, CfnOut(f))
             THEN IF ~b.floats
                  THEN /\ pbCall' = AddRejected(f, b, "bounds should be floats.", 1)
                       /\ handleRefs' = pyobject_deleter(held, f)
                       /\ UNCHANGED constraints
                  ELSE /\ constraints' =
                            Append(constraints, WithInterval(f, b.lo, b.hi))
                       /\ handleRefs' = held
                       /\ pbCall' = AddDone(f, b)
             ELSE IF ArrayBoundsFit(b, CfnOut(f))
             THEN /\ constraints' =
                       Append(constraints, WithIntervals(f, b.a, CfnOut(f)))
                  /\ handleRefs' = held
                  /\ pbCall' = AddDone(f, b)
             ELSE /\ pbCall' = AddRejected(f, b,
                        "3rd argument's size must match the constraint's output size.", 1)
                  /\ handleRefs' = pyobject_deleter(held, f)
                  /\ UNCHANGED constraints
  /\ UNCHANGED <<pbInSize, startingPoint, argumentBounds, argumentScales,
                 solvers, fnVars, svVars>>

(***************************************************************************)
(* createSolver (pluginName, problem).  The factory's constructor throws   *)
(* when the plug-in cannot be loaded.                                      *)
(***************************************************************************)
\* A handler that turns the failure into a Python error.
CatchAllSetsError == [ret |-> "error", err |-> "cannot load plugin"]

\* catch (...) { delete factory; Py_INCREF (Py_None); return Py_None; }
CatchAll == [ret |-> "None", err |-> NoErr]

createSolver(pluginName) ==
  /\ PluginLoads(pluginName) => solvers < MaxSolvers
  /\ IF ~PluginLoads(pluginName)
     THEN /\ pbCall' = PbReturn("createSolver", pluginName, CatchAll.ret, CatchAll.err)
          /\ UNCHANGED solvers
     ELSE /\ solvers' = solvers + 1
          /\ pbCall' = PbReturn("createSolver", pluginName, "capsule", NoErr)
  /\ UNCHANGED <<pbInSize, startingPoint, argumentBounds, argumentScales,
                 constraints, handleRefs, fnVars, svVars>>

NextPb ==
  \/ \E a \in VectorInputs(pbInSize) : setStartingPoint(a)
  \/ \E a \in MatrixInputs(pbInSize), junk \in ArrayJunk :
       setArgumentBounds(a, junk)
  \/ \E a \in VectorInputs(pbInSize), junk \in ArrayJunk :
       setArgumentBounds(a, junk)
  \/ \E a \in VectorInputs(pbInSize) : setArgumentScales(a)
  \/ \E name \in PluginNames : createSolver(name)

SpecPb == InitPb /\ [][NextPb]_vars

\* The constraints of a problem are independent of its starting point,
\* bounds and scales: addConstraint is explored on its own.
NextCs == \E f \in CFns, b \in BoundsInputs : addConstraint(f, b)

SpecCs == InitPb /\ [][NextCs]_vars

(***************************************************************************)
(* Properties of the problem (SpecCs for C7 and C8, SpecPb for the rest).   *)
(***************************************************************************)
\* The last addConstraint was given bounds that do not fit the constraint's
\* output size: an array with another row count, or a list of two for a
\* constraint that has not exactly one output.
SizeMismatch ==
  /\ pbCall.op = "addConstraint"
  /\ CfnDifferentiable(pbCall.fn)
  /\ \/ is_np_array(pbCall.arg) /\ pbCall.arg.a.shape[1] # CfnOut(pbCall.fn)
     \/ is_pair(pbCall.arg) /\ CfnOut(pbCall.fn) # 1

\* C7: addConstraint given bounds whose size does not fit the constraint is
\* rejected, the constraint list is what it was before the call, and the
\* reference taken on the constraint's capsule during the call has been
\* given back.
C7_AddConstraintTransactional ==
  SizeMismatch =>
    /\ pbCall.ret = "error"
    /\ constraints = pbCall.before.constraints
    /\ pbCall.increfs = 1
    /\ handleRefs = pbCall.before.handleRefs

\* A rejected array with a wrong row count, on a problem that already holds
\* a constraint on the same function.
C7_Witness ==
  /\ SizeMismatch /\ is_np_array(pbCall.arg)
  /\ Len(constraints) = 1 /\ constraints[1].fn = pbCall.fn

\* C8: every stored constraint has as many intervals, and as many scales, as
\* its function has outputs; the list form is stored only for one output and
\* the array form only for shape (outputSize, 2).
C8_IntervalsMatchOutputSize ==
  /\ \A k \in 1..Len(constraints) :
       /\ Len(constraints[k].bounds) = CfnOut(constraints[k].fn)
       /\ Len(constraints[k].scales) = CfnOut(constraints[k].fn)
       /\ \A i \in 1..Len(constraints[k].scales) : constraints[k].scales[i] = 1
  /\ (pbCall.op = "addConstraint" /\ pbCall.ret = "ok") =>
       /\ Len(constraints) = Len(pbCall.before.constraints) + 1
       /\ pbCall.arg.t = "list" => CfnOut(pbCall.fn) = 1
       /\ pbCall.arg.t = "array" => pbCall.arg.a.shape = <<CfnOut(pbCall.fn), 2>>

\* Both forms stored, after accepted and rejected calls.
C8_Witness ==
  /\ Len(constraints) = 2
  /\ constraints[1].fn = "g1" /\ constraints[2].fn = "g2"
  /\ pbCall.op = "addConstraint" /\ pbCall.ret = "ok" /\ pbCall.arg.t = "array"

\* C9: after a successful set of the starting point, of the bounds or of the
\* scales, the matching get returns the array that was set, item for item,
\* and the other two are what they were before the call.
C9_RoundTrip ==
  /\ (pbCall.op = "setStartingPoint" /\ pbCall.ret = "ok") =>
       /\ getStartingPoint # PyNone
       /\ getStartingPoint.shape = pbCall.arg.shape
       /\ getStartingPoint.data = pbCall.arg.data
       /\ argumentBounds = pbCall.before.argumentBounds
       /\ argumentScales = pbCall.before.argumentScales
  /\ (pbCall.op = "setArgumentBounds" /\ pbCall.ret = "ok") =>
       /\ getArgumentBounds.shape = pbCall.arg.shape
       /\ getArgumentBounds.data = pbCall.arg.data
       /\ startingPoint = pbCall.before.startingPoint
       /\ argumentScales = pbCall.before.argumentScales
  /\ (pbCall.op = "setArgumentScales" /\ pbCall.ret = "ok") =>
       /\ getArgumentScales.shape = pbCall.arg.shape
       /\ getArgumentScales.data = pbCall.arg.data
       /\ startingPoint = pbCall.before.startingPoint
       /\ argumentBounds = pbCall.before.argumentBounds

\* C10: createSolver with a plug-in that cannot be loaded returns None with
\* no error set, creates no solver and leaves the problem as it was.
C10_UnknownPluginIsAbsent ==
  (pbCall.op = "createSolver" /\ ~PluginLoads(pbCall.arg)) =>
    /\ pbCall.ret = "None"
    /\ pbCall.err = NoErr
    /\ solvers = pbCall.before.solvers
    /\ Snapshot = pbCall.before

\* The scenario of the specification: bounds and starting point set, then
\* createSolver ("unknown-plugin", problem).
C10_Witness ==
  /\ pbCall.op = "createSolver" /\ pbCall.arg = "unknown-plugin"
  /\ startingPoint.set
  /\ argumentBounds[1] # InfiniteInterval

(***************************************************************************)
(* The solver (SpecSv): solve, minimum and the outcome capsules.           *)
(*                                                                         *)
(* A capsule is created under a name and its destructor retrieves the      *)
(* native pointer under a name; PyCapsule_GetPointer returns NULL when the *)
(* two differ.                                                             *)
(***************************************************************************)
MaxSolves == 2
MaxOutcomes == 2

FUNCTION_CAPSULE_NAME == "roboptim_core_function"
RESULT_CAPSULE_NAME == "roboptim_core_result"
RESULT_WITH_WARNINGS_CAPSULE_NAME == "roboptim_core_result_with_warnings"
SOLVER_ERROR_CAPSULE_NAME == "roboptim_core_solver_error"
PROBLEM_CAPSULE_NAME == "roboptim_core_problem"
SOLVER_CAPSULE_NAME == "roboptim_core_solver"
SOLVER_STATE_CAPSULE_NAME == "roboptim_core_solver_state"
SOLVER_CALLBACK_CAPSULE_NAME == "roboptim_core_solver_callback"
CALLBACK_MULTIPLEXER_CAPSULE_NAME == "roboptim_core_callback_multiplexer"
OPTIMIZATION_LOGGER_CAPSULE_NAME == "roboptim_core_optimization_logger"

\* PyCapsule_GetPointer (capsule, name) on a capsule object.
PyCapsule_GetPointer(capsule, name) ==
  IF capsule.name = name THEN capsule.ptr ELSE NullPtr

\* The primary template detail::destructor<T>.
destructorGenericName(T) == FUNCTION_CAPSULE_NAME

\* Every destructor retrieving the pointer under the function name.
destructorNameOfFunction(T) == FUNCTION_CAPSULE_NAME

\* The name under which detail::destructor<T> retrieves the pointer.
destructorName(T) ==
  CASE T = "result_t" -> RESULT_CAPSULE_NAME
    [] T = "resultWithWarnings_t" -> RESULT_WITH_WARNINGS_CAPSULE_NAME
    [] T = "solverError_t" -> SOLVER_ERROR_CAPSULE_NAME
    [] T = "problem_t" -> PROBLEM_CAPSULE_NAME
    [] T = "factory_t" -> SOLVER_CAPSULE_NAME
    [] T = "Multiplexer" -> CALLBACK_MULTIPLEXER_CAPSULE_NAME
    [] T = "solverState_t" -> SOLVER_STATE_CAPSULE_NAME
    [] T = "logger_t" -> OPTIMIZATION_LOGGER_CAPSULE_NAME
    [] OTHER -> destructorGenericName(T)

\* What the solver's solve () can leave in result_.
SolveOutcomes == {SOLVER_VALUE, SOLVER_VALUE_WARNINGS, SOLVER_ERROR}

\* solver.solve (): runs the plug-in and stores the outcome.
SolverSolve(r) == {[which |-> w, solve |-> r.solve + 1] : w \in SolveOutcomes}

\* A minimum () that only hands out the stored result.
SolverMinimumStored(r) == {r}

\* solver.minimum () as called at the top of the exported minimum: it
\* solves first when there is no solution yet ("should never happen" on
\* the SOLVER_NO_SOLUTION branch), and returns the stored result.
SolverMinimum(r) ==
  IF r.which = SOLVER_NO_SOLUTION THEN SolverSolve(r) ELSE {r}

\* The outcome capsule the switch of minimum builds for a tag: a copy of
\* the outcome on the heap, new T (boost::get<T> (result)).
OutcomeCapsule(r) ==
  LET T == CASE r.which = SOLVER_VALUE -> "result_t"
             [] r.which = SOLVER_VALUE_WARNINGS -> "resultWithWarnings_t"
             [] r.which = SOLVER_ERROR -> "solverError_t"
      name == CASE r.which = SOLVER_VALUE -> RESULT_CAPSULE_NAME
                [] r.which = SOLVER_VALUE_WARNINGS -> RESULT_WITH_WARNINGS_CAPSULE_NAME
                [] r.which = SOLVER_ERROR -> SOLVER_ERROR_CAPSULE_NAME
  IN [name |-> name, T |-> T, ptr |-> [which |-> r.which, solve |-> r.solve],
      refs |-> 1, deleted |-> FALSE]

FnIdle ==
  /\ kind = "Function" /\ inSize = 1 /\ outSize = 1 /\ alive = FALSE
  /\ computeCallback_ = Null /\ gradientCallback_ = Null
  /\ jacobianCallback_ = Null /\ refs = [o \in PyObjects |-> 0]
  /\ status = "running" /\ lastCall = NoCall

\* createSolver (pluginName, problem) with a plug-in that loads.
InitSv ==
  /\ FnIdle
  /\ pbInSize = 1 /\ startingPoint = Absent
  /\ argumentBounds = <<InfiniteInterval>> /\ argumentScales = <<1>>
  /\ constraints = <<>> /\ handleRefs = <<>> /\ solvers = 1
  /\ pbCall = NoPbCall
  /\ SvIdle

SvReturn(op, ret, err, made) ==
  [NoSvCall EXCEPT !.op = op, !.ret = ret, !.err = err,
                   !.solveCalled = solveCalled, !.before = result_,
                   !.made = made]

\* solve (solver)
solve ==
  /\ result_.solve < MaxSolves
  /\ result_' \in SolverSolve(result_)
  /\ solveCalled' = TRUE
  /\ svCall' = SvReturn("solve", "None", NoErr, 0)
  /\ UNCHANGED <<outcomes, owVars, bdVars, fnVars, pbVars>>

\* minimum (solver)
minimum ==
  /\ Len(outcomes) < MaxOutcomes
  /\ \E result \in SolverMinimum(result_) :
       /\ result_' = result
       /\ IF result.which = SOLVER_NO_SOLUTION
          THEN /\ svCall' = SvReturn("minimum", "error",
                                     "problem not yet solved", 0)
               /\ UNCHANGED outcomes
          ELSE LET capsule == OutcomeCapsule(result)
               IN /\ outcomes' = Append(outcomes, capsule)
                  /\ svCall' = SvReturn("minimum", capsule.name, NoErr,
                                        Len(outcomes) + 1)
  /\ UNCHANGED <<solveCalled, owVars, bdVars, fnVars, pbVars>>

\* The caller drops its reference on the i-th outcome capsule: the
\* capsule's destructor runs and deletes the pointer it retrieves.
releaseOutcome(i) ==
  /\ outcomes[i].refs = 1
  /\ LET capsule == outcomes[i]
         ptr == PyCapsule_GetPointer(capsule, destructorName(capsule.T))
     IN outcomes' = [outcomes EXCEPT ![i].refs = 0,
                                     ![i].deleted = (ptr # NullPtr)]
  /\ svCall' = SvReturn("release", "None", NoErr, i)
  /\ UNCHANGED <<result_, solveCalled, owVars, bdVars, fnVars, pbVars>>

NextSv ==
  \/ solve
  \/ minimum
  \/ \E i \in 1..Len(outcomes) : releaseOutcome(i)

SpecSv == InitSv /\ [][NextSv]_vars

OutcomeNames ==
  {RESULT_CAPSULE_NAME, RESULT_WITH_WARNINGS_CAPSULE_NAME,
   SOLVER_ERROR_CAPSULE_NAME}

C12_MinimumReturnsTaggedOutcome ==
  /\ (svCall.op = "minimum" /\ svCall.solveCalled) =>
       ( /\ svCall.ret \in OutcomeNames /\ svCall.err = NoErr
         /\ svCall.made = Len(outcomes)
         /\ outcomes[svCall.made].name = svCall.ret
         /\ outcomes[svCall.made].ptr = svCall.before
         /\ result_ = svCall.before
         /\ (svCall.before.which = SOLVER_ERROR
               <=> svCall.ret = SOLVER_ERROR_CAPSULE_NAME)
         /\ (svCall.before.which = SOLVER_VALUE
               <=> svCall.ret = RESULT_CAPSULE_NAME) )
  /\ \A i \in 1..Len(outcomes) :
       /\ outcomes[i].deleted <=> outcomes[i].refs = 0
       /\ outcomes[i].ptr.which # SOLVER_NO_SOLUTION

C12_Witness ==
  /\ svCall.op = "release"
  /\ Len(outcomes) = 2
  /\ outcomes[1].name = SOLVER_ERROR_CAPSULE_NAME /\ outcomes[1].deleted
  /\ outcomes[2].refs = 1 /\ outcomes[2].ptr.solve = 2

(***************************************************************************)
(* Shared ownership and the callback multiplexer (SpecOw).                 *)
(*                                                                         *)
(* The capsules are the constraint functions g1, g2 (differentiable) and   *)
(* h1 (not), the solver callbacks cb1 and cb2, and the logger lg that      *)
(* addOptimizationLogger creates.  handleRefs is the Python reference      *)
(* count of each; a shared_ptr made by to_shared_ptr holds one reference   *)
(* and gives it back in pyobject_deleter.  When a count reaches zero the   *)
(* capsule's destructor runs.                                              *)
(***************************************************************************)
MaxCallbacks == 3
MaxPool == 2

CbHandles == {"cb1", "cb2"}
Logger == "lg"
Handles == CFns \cup CbHandles \cup {Logger}

\* The name each capsule is created under.
CapsuleName(h) ==
  CASE h \in CFns -> FUNCTION_CAPSULE_NAME
    [] h \in CbHandles -> SOLVER_CALLBACK_CAPSULE_NAME
    [] h = Logger -> OPTIMIZATION_LOGGER_CAPSULE_NAME

\* The type the capsule's destructor is instantiated with.
CapsuleType(h) ==
  CASE h \in CFns -> IF CfnDifferentiable(h) THEN "DifferentiableFunction"
                                              ELSE "Function"
    [] h \in CbHandles -> "solverCallback_t"
    [] h = Logger -> "logger_t"

Capsule(h) == [name |-> CapsuleName(h), ptr |-> [object |-> h]]

\* The reference counts, deletions and abort flag that Py_DECREF works on.
Heap == [refs |-> handleRefs, deleted |-> deleted, aborted |-> proc.aborted]

\* detail::destructor<T> (capsule): deletes the pointer it retrieves; when
\* there is none the assert ends a debug build and a release build goes on.
CapsuleDestructor(heap, h) ==
  LET ptr == PyCapsule_GetPointer(Capsule(h), destructorName(CapsuleType(h)))
  IN IF ptr # NullPtr
     THEN [heap EXCEPT !.deleted[h] = @ + 1]
     ELSE [heap EXCEPT !.aborted = IF proc.build = "debug" THEN "assert"
                                                            ELSE @]

\* Py_DECREF (capsule)
Py_DECREF(heap, h) ==
  LET less == [heap EXCEPT !.refs[h] = @ - 1]
  IN IF less.refs[h] = 0 THEN CapsuleDestructor(less, h) ELSE less

\* The shared_ptr of a container being destroyed one after the other.
RECURSIVE ReleaseAll(_, _)
ReleaseAll(heap, hs) ==
  IF hs = <<>> THEN heap
  ELSE ReleaseAll(Py_DECREF(heap, Head(hs)), Tail(hs))

\* Multiplexer::add: the callback is appended.
MultiplexerAdd(cbs, entry) == Append(cbs, entry)

\* Multiplexer::remove: the callback at the position is erased.
MultiplexerRemove(cbs, index) ==
  [k \in 1..(Len(cbs) - 1) |-> IF k <= index THEN cbs[k] ELSE cbs[k + 1]]

\* One solver iteration: every callback of the list is invoked, in order.
MultiplexerIteration(cbs) == [k \in 1..Len(cbs) |-> cbs[k].stamp]

\* An index parsed one too high.
ParseIndexNext(k) == k + 1

\* size_t index = 0; PyArg_ParseTuple (args, "O&i", ..., &index): the int
\* is stored in the low four bytes of the eight, so that a negative k
\* reads as 2^32 + k.  Any value beyond every vector size does here:
\* 2^31 + k stands for it.
ParseIndex(k) == IF k >= 0 THEN k ELSE (2147483647 + k) + 1

\* createProblem, createSolver, createMultiplexer, createSolverCallback
\* twice and three functions: every capsule is held by the caller only.
InitMx ==
  /\ FnIdle
  /\ pbInSize = 1 /\ startingPoint = Absent
  /\ argumentBounds = <<InfiniteInterval>> /\ argumentScales = <<1>>
  /\ constraints = <<>> /\ solvers = 1
  /\ pbCall = NoPbCall
  /\ handleRefs = [h \in Handles |-> IF h = Logger THEN 0 ELSE 1]
  /\ result_ = Unsolved /\ solveCalled = FALSE /\ outcomes = <<>>
  /\ svCall = NoSvCall
  /\ foreign = [h \in Handles |-> h # Logger]
  /\ deleted = [h \in Handles |-> 0]
  /\ callbacks_ = <<>>
  /\ registry = [next |-> 1, live |-> {}, shared |-> {}]
  /\ pool_ = NoPool
  /\ proc \in [build : {"release", "debug"},
               use : {"callbacks", "pool", "constraints"},
               problem : {TRUE}, multiplexer : {TRUE}, aborted : {"no"}]
  /\ BdIdle

Running == proc.aborted = "no"

SetHeap(heap, p) ==
  /\ handleRefs' = heap.refs
  /\ deleted' = heap.deleted
  /\ proc' = [p EXCEPT !.aborted = heap.aborted]

MxReturn(op, arg, ret, err) ==
  [NoSvCall EXCEPT !.op = op, !.arg = arg, !.ret = ret, !.err = err]

mxRest == <<result_, solveCalled, outcomes, fnVars, pbInSize, startingPoint,
            argumentBounds, argumentScales, solvers, pbCall, bdVars>>

\* addIterationCallback (multiplexer, callback)
addIterationCallback(h) ==
  /\ Running /\ proc.multiplexer /\ foreign[h]
  /\ registry.next <= MaxCallbacks
  /\ IF PyCapsule_GetPointer(Capsule(h), SOLVER_CALLBACK_CAPSULE_NAME) = NullPtr
     THEN /\ svCall' = MxReturn("addIterationCallback", h, "error",
                 "Solver callback object expected but another type was passed")
          /\ UNCHANGED <<handleRefs, callbacks_, registry>>
     ELSE /\ handleRefs' = to_shared_ptr(handleRefs, h)
          /\ callbacks_' = MultiplexerAdd(callbacks_,
                                          [h |-> h, stamp |-> registry.next])
          /\ registry' = [next |-> registry.next + 1,
                          live |-> registry.live \cup {registry.next},
                          shared |-> registry.shared \cup {h}]
          /\ svCall' = MxReturn("addIterationCallback", h, "None", NoErr)
  /\ UNCHANGED <<foreign, deleted, pool_, proc, constraints, mxRest>>

\* The registrations still standing, oldest first.
RECURSIVE Ascending(_)
Ascending(S) ==
  IF S = {} THEN <<>>
  ELSE LET m == CHOOSE a \in S : \A b \in S : a <= b
       IN <<m>> \o Ascending(S \ {m})

\* removeIterationCallback (multiplexer, index).  Erasing at a position
\* that is not in the vector is undefined: the process ends, or the
\* vector is left as it was.
removeIterationCallback(k) ==
  /\ Running /\ proc.multiplexer
  /\ LET index == ParseIndex(k)
     IN IF index < Len(callbacks_)
        THEN /\ callbacks_' = MultiplexerRemove(callbacks_, index)
             /\ SetHeap(Py_DECREF(Heap, callbacks_[index + 1].h), proc)
             /\ svCall' = MxReturn("removeIterationCallback", k, "None", NoErr)
        ELSE \E crash \in BOOLEAN :
               /\ proc' = [proc EXCEPT !.aborted = IF crash THEN "erase"
                                                            ELSE @]
               /\ svCall' = MxReturn("removeIterationCallback", k,
                                     IF crash THEN "terminated" ELSE "None",
                                     NoErr)
               /\ UNCHANGED <<callbacks_, handleRefs, deleted>>
  /\ registry' =
       IF 0 <= k /\ k < Cardinality(registry.live)
       THEN [registry EXCEPT !.live = @ \ {Ascending(registry.live)[k + 1]}]
       ELSE registry
  /\ UNCHANGED <<foreign, pool_, constraints, mxRest>>

\* addOptimizationLogger (solver, multiplexer, log_dir)
addOptimizationLogger ==
  /\ Running /\ proc.multiplexer
  /\ handleRefs[Logger] = 0 /\ deleted[Logger] = 0
  /\ registry.next <= MaxCallbacks
  /\ handleRefs' = to_shared_ptr([handleRefs EXCEPT ![Logger] = 1], Logger)
  /\ callbacks_' = MultiplexerAdd(callbacks_,
                                  [h |-> Logger, stamp |-> registry.next])
  /\ registry' = [next |-> registry.next + 1,
                  live |-> registry.live \cup {registry.next},
                  shared |-> registry.shared \cup {Logger}]
  /\ foreign' = [foreign EXCEPT ![Logger] = TRUE]
  /\ svCall' = MxReturn("addOptimizationLogger", Logger,
                        OPTIMIZATION_LOGGER_CAPSULE_NAME, NoErr)
  /\ UNCHANGED <<deleted, pool_, proc, constraints, mxRest>>

\* One iteration of the solver while it solves: the multiplexer's
\* callback runs.
solverIteration ==
  /\ Running /\ proc.multiplexer
  /\ svCall' = MxReturn("iteration", MultiplexerIteration(callbacks_),
                        "None", NoErr)
  /\ UNCHANGED <<owVars, handleRefs, constraints, mxRest>>

\* The caller drops its reference on a capsule.
release(h) ==
  /\ Running /\ foreign[h]
  /\ foreign' = [foreign EXCEPT ![h] = FALSE]
  /\ SetHeap(Py_DECREF(Heap, h), proc)
  /\ svCall' = MxReturn("release", h, "None", NoErr)
  /\ UNCHANGED <<callbacks_, registry, pool_, constraints, mxRest>>

\* detail::destructor<Multiplexer>: the callback list goes with it.
destroyMultiplexer ==
  /\ Running /\ proc.multiplexer
  /\ SetHeap(ReleaseAll(Heap, [k \in 1..Len(callbacks_) |-> callbacks_[k].h]),
             [proc EXCEPT !.multiplexer = FALSE])
  /\ callbacks_' = <<>>
  /\ registry' = [registry EXCEPT !.live = {}]
  /\ svCall' = MxReturn("destroyMultiplexer", <<>>, "None", NoErr)
  /\ UNCHANGED <<foreign, pool_, constraints, mxRest>>

\* detail::destructor<problem_t>: the constraints go with it.
destroyProblem ==
  /\ Running /\ proc.problem
  /\ SetHeap(ReleaseAll(Heap, [k \in 1..Len(constraints) |-> constraints[k].fn]),
             [proc EXCEPT !.problem = FALSE])
  /\ constraints' = <<>>
  /\ svCall' = MxReturn("destroyProblem", <<>>, "None", NoErr)
  /\ UNCHANGED <<foreign, callbacks_, registry, pool_, mxRest>>

(***************************************************************************)
(* The function pool.  Its members are functions of CFns that all take     *)
(* MaxIn inputs; member f has CfnOut (f) outputs.                          *)
(***************************************************************************)
CfnIn(f) == MaxIn

\* The Python objects a member list is made of, and the lists.
PoolItems == CFns \cup {"cb1"}
PoolLists ==
  {[t |-> "list", items |-> s] :
     s \in UNION {[1..n -> PoolItems] : n \in 1..MaxPool}}
  \cup {[t |-> "tuple", items |-> <<"g1">>]}

PyList_CheckExact(obj) == obj.t = "list"

\* functionListConverter that puts every function in front of the list.
RECURSIVE functionListConverterPushFront(_, _)
functionListConverterPushFront(obj, v) ==
  IF obj = <<>> THEN [ret |-> 1, v |-> v, err |-> NoErr]
  ELSE functionListConverterPushFront(Tail(obj), <<Head(obj)>> \o v)

\* detail::functionListConverter (obj, &v) on the items of a list: v is
\* the list of shared_ptr built so far, each holding one reference.
RECURSIVE functionListConverter(_, _)
functionListConverter(obj, v) ==
  IF obj = <<>> THEN [ret |-> 1, v |-> v, err |-> NoErr]
  ELSE LET fPy == Head(obj)
       IN IF PyCapsule_GetPointer(Capsule(fPy), FUNCTION_CAPSULE_NAME) = NullPtr
          THEN [ret |-> 0, v |-> v,
                err |-> "Function object expected but another type was passed"]
          ELSE IF ~CfnDifferentiable(fPy)
          THEN [ret |-> 0, v |-> v,
                err |-> "DifferentiableFunction object expected but another type was passed"]
          ELSE functionListConverter(Tail(obj), Append(v, fPy))

\* pool_t::listInputSize (functions)
listInputSize(functions) == CfnIn(functions[1])

\* pool_t::listOutputSize (functions)
RECURSIVE listOutputSize(_)
listOutputSize(functions) ==
  IF functions = <<>> THEN 0
  ELSE CfnOut(Head(functions)) + listOutputSize(Tail(functions))

RECURSIVE AcquireAll(_, _)
AcquireAll(r, hs) ==
  IF hs = <<>> THEN r ELSE AcquireAll(to_shared_ptr(r, Head(hs)), Tail(hs))

\* The record of the call holds the reference counts before it.
PoolReturn(callback, list, ret, err) ==
  [MxReturn("createFunctionPool", list, ret, err)
     EXCEPT !.before = callback, !.refs = handleRefs]

\* Third argument of createFunction<FunctionPool>: a text or not.
PoolNames == {[text |-> TRUE], [text |-> FALSE]}

\* createFunction<FunctionPool> (callback, functions, name)
createFunctionPool(callback, list, name) ==
  /\ Running /\ pool_.state = "none" /\ pool_.leaked = <<>>
  /\ foreign[callback]
  /\ \A k \in 1..Len(list.items) : foreign[list.items[k]]
  /\ IF PyCapsule_GetPointer(Capsule(callback), FUNCTION_CAPSULE_NAME) = NullPtr
     THEN /\ svCall' = PoolReturn(callback, list, "error",
                 "Function object expected but another type was passed")
          /\ UNCHANGED <<handleRefs, pool_, registry>>
     ELSE IF ~PyList_CheckExact(list)
     THEN /\ svCall' = PoolReturn(callback, list, "error",
                                  "Invalid Function list given.")
          /\ UNCHANGED <<handleRefs, pool_, registry>>
     ELSE LET r == functionListConverter(list.items, <<>>)
              shared == {r.v[k] : k \in 1..Len(r.v)}
          IN IF r.ret = 0 \/ ~name.text
             THEN /\ handleRefs' = AcquireAll(handleRefs, r.v)
                  /\ pool_' = [pool_ EXCEPT !.leaked = r.v]
                  /\ registry' = [registry EXCEPT !.shared = @ \cup shared]
                  /\ svCall' = PoolReturn(callback, list, "error",
                                          IF r.ret = 0 THEN r.err
                                          ELSE "argument 3 must be string")
             ELSE /\ handleRefs' =
                       to_shared_ptr(AcquireAll(handleRefs, r.v), callback)
                  /\ pool_' = [pool_ EXCEPT !.state = "alive",
                                            !.callback = callback,
                                            !.functions = r.v,
                                            !.given = list.items]
                  /\ registry' = [registry EXCEPT
                                    !.shared = @ \cup shared \cup {callback}]
                  /\ svCall' = PoolReturn(callback, list,
                                          FUNCTION_CAPSULE_NAME, NoErr)
  /\ UNCHANGED <<foreign, deleted, callbacks_, proc, constraints, mxRest>>

\* detail::destructor<FunctionPool>: the pool's function list and callback
\* go with it.
destroyPool ==
  /\ Running /\ pool_.state = "alive"
  /\ SetHeap(ReleaseAll(Heap, pool_.functions \o <<pool_.callback>>), proc)
  /\ pool_' = [pool_ EXCEPT !.state = "deleted", !.callback = Null,
                            !.functions = <<>>]
  /\ svCall' = MxReturn("destroyPool", <<>>, "None", NoErr)
  /\ UNCHANGED <<foreign, callbacks_, registry, constraints, mxRest>>

\* The bounds handed to addConstraint here: a pair and a one-row array.
SharedBounds ==
  {b \in BoundsInputs :
     \/ b.t = "list" /\ b.len = 2 /\ b.floats /\ b.lo = 0 /\ b.hi = 1
     \/ b.t = "array" /\ b.a.shape \in {<<1, 2>>, <<2, 2>>}}

\* addConstraint (problem, function, bounds) on a function the caller holds.
addSharedConstraint(f, b) ==
  /\ Running /\ proc.problem /\ foreign[f]
  /\ addConstraint(f, b)

\* The gradient of output j of member f at x, as the member's bound
\* callable computes it.
MemberGradient(f, x, j) ==
  [k \in 1..CfnIn(f) |->
     (IF f = "g1" THEN 100 ELSE 200) + 10 * j + x[k]]

\* pool_.impl_gradient: the member that owns output functionId computes.
RECURSIVE PoolGradient(_, _, _)
PoolGradient(functions, x, functionId) ==
  IF functionId < CfnOut(Head(functions))
  THEN MemberGradient(Head(functions), x, functionId)
  ELSE PoolGradient(Tail(functions), x, functionId - CfnOut(Head(functions)))

\* pool_.impl_jacobian: each member writes its block of rows, one after
\* the other, into the zero matrix it is handed.
RECURSIVE PoolJacobian(_, _, _, _)
PoolJacobian(functions, matrix, x, row) ==
  IF functions = <<>> THEN matrix
  ELSE LET f == Head(functions)
           block == [i \in 1..Len(matrix) |->
                       IF row < i /\ i <= row + CfnOut(f)
                       THEN MemberGradient(f, x, i - row - 1)
                       ELSE matrix[i]]
       IN PoolJacobian(Tail(functions), block, x, row + CfnOut(f))

PoolX == {[k \in 1..MaxIn |-> b + k] : b \in {0, 1}}

\* gradient (pool, out, x, functionId) with buffers of the pool's sizes.
poolGradient(x, functionId) ==
  /\ Running /\ pool_.state = "alive"
  /\ svCall' = [MxReturn("poolGradient", x,
                         PoolGradient(pool_.functions, x, functionId), NoErr)
                  EXCEPT !.made = functionId]
  /\ UNCHANGED <<owVars, handleRefs, constraints, mxRest>>

\* jacobian (pool, out, x) with buffers of the pool's sizes.
poolJacobian(x) ==
  /\ Running /\ pool_.state = "alive"
  /\ svCall' = MxReturn("poolJacobian", x,
                  PoolJacobian(pool_.functions,
                               ConstMatrix(listOutputSize(pool_.functions),
                                           listInputSize(pool_.functions), 0),
                               x, 0),
                  NoErr)
  /\ UNCHANGED <<owVars, handleRefs, constraints, mxRest>>

\* The callback list, the pool and the constraint list share no capsule:
\* a behaviour works on the one that proc.use names.
Uses(part) == proc.use = part

NextOw ==
  \/ \E h \in Handles : Uses("callbacks") /\ addIterationCallback(h)
  \/ \E k \in -1..Len(callbacks_) :
       Uses("callbacks") /\ removeIterationCallback(k)
  \/ Uses("callbacks") /\ addOptimizationLogger
  \/ Uses("callbacks") /\ solverIteration
  \/ \E h \in CbHandles \cup {Logger} : Uses("callbacks") /\ release(h)
  \/ Uses("callbacks") /\ destroyMultiplexer
  \/ \E c \in {"g1", "cb1"}, list \in PoolLists, name \in PoolNames :
       Uses("pool") /\ createFunctionPool(c, list, name)
  \/ Uses("pool") /\ destroyPool
  \/ \E x \in PoolX, i \in 0..(listOutputSize(pool_.functions) - 1) :
       Uses("pool") /\ poolGradient(x, i)
  \/ \E x \in PoolX : Uses("pool") /\ poolJacobian(x)
  \/ \E h \in CFns : Uses("pool") /\ release(h)
  \/ \E f \in CFns, b \in SharedBounds :
       Uses("constraints") /\ addSharedConstraint(f, b)
  \/ Uses("constraints") /\ destroyProblem
  \/ \E h \in CFns : Uses("constraints") /\ release(h)

SpecOw == InitMx /\ [][NextOw]_vars

(***************************************************************************)
(* Properties of the multiplexer, of shared ownership and of the pool      *)
(* (SpecOw).                                                               *)
(***************************************************************************)
\* C13: one solver iteration invokes the callbacks that were added and not
\* removed, each exactly once, in the order they were added; after
\* removeIterationCallback (k) with 0 <= k < N the removed one is never
\* invoked and the others keep their order.
C13_MultiplexerOrder ==
  /\ svCall.op = "iteration" => svCall.arg = Ascending(registry.live)
  /\ (Uses("callbacks") /\ Running) =>
       /\ Len(callbacks_) = Cardinality(registry.live)
       /\ MultiplexerIteration(callbacks_) = Ascending(registry.live)

C13_Witness ==
  /\ svCall.op = "iteration"
  /\ svCall.arg = <<1, 3>>
  /\ registry.next = 4

\* The owners of a capsule: the caller's reference and the shared
\* references held by the lists, the pool's callback included.
InList(hs, h) == Cardinality({k \in 1..Len(hs) : hs[k] = h})

Owners(h) ==
  (IF foreign[h] THEN 1 ELSE 0)
  + InList([k \in 1..Len(callbacks_) |-> callbacks_[k].h], h)
  + InList([k \in 1..Len(constraints) |-> constraints[k].fn], h)
  + InList(pool_.functions, h) + InList(pool_.leaked, h)
  + (IF pool_.callback = h THEN 1 ELSE 0)

EverShared(h) ==
  \/ h \in registry.shared
  \/ \E k \in 1..Len(constraints) : constraints[k].fn = h

\* C14: a native object that has been referenced from a pool's member
\* list, a constraint list or a multiplexer's callback list is deleted
\* exactly once, when its last owner is released and not before.
C14_DestroyedAtLastRelease ==
  \A h \in DOMAIN deleted :
    EverShared(h) => deleted[h] = (IF Owners(h) = 0 THEN 1 ELSE 0)

\* The same for the functions and the logger alone.
OwnershipOfFunctionsAndLogger ==
  \A h \in DOMAIN deleted :
    (EverShared(h) /\ h \notin CbHandles) =>
      deleted[h] = (IF Owners(h) = 0 THEN 1 ELSE 0)

\* The outputs of the members before member m of a list.
RECURSIVE OutputsBefore(_, _)
OutputsBefore(list, m) ==
  IF m = 1 THEN 0 ELSE OutputsBefore(list, m - 1) + CfnOut(list[m - 1])

\* The gradient of output i of a pool over the list, by the member that
\* owns the output.
OwnerGradient(list, x, i) ==
  LET m == CHOOSE n \in 1..Len(list) :
             /\ OutputsBefore(list, n) <= i
             /\ i < OutputsBefore(list, n) + CfnOut(list[n])
  IN MemberGradient(list[m], x, i - OutputsBefore(list, m))

\* C20: a pool built from a non-empty list of differentiable functions of
\* one input size has that input size and the sum of its members' output
\* sizes; gradient (x, i) is the gradient of the member that owns output
\* i; the jacobian is made of the members' blocks, in order, and is zero
\* elsewhere.
C20_PoolSizesAndBlocks ==
  /\ pool_.state = "alive" =>
       /\ pool_.given # <<>>
       /\ \A k \in 1..Len(pool_.given) : CfnDifferentiable(pool_.given[k])
       /\ listInputSize(pool_.functions) = CfnIn(pool_.given[1])
       /\ listOutputSize(pool_.functions) =
            OutputsBefore(pool_.given, Len(pool_.given) + 1)
  /\ svCall.op = "poolGradient" =>
       svCall.ret = OwnerGradient(pool_.given, svCall.arg, svCall.made)
  /\ svCall.op = "poolJacobian" =>
       /\ Len(svCall.ret) = OutputsBefore(pool_.given, Len(pool_.given) + 1)
       /\ \A i \in 1..Len(svCall.ret) :
            /\ Len(svCall.ret[i]) = CfnIn(pool_.given[1])
            /\ svCall.ret[i] = OwnerGradient(pool_.given, svCall.arg, i - 1)

C20_Witness ==
  /\ svCall.op = "poolJacobian"
  /\ pool_.given = <<"g1", "g2">>
  /\ svCall.ret[1] # svCall.ret[2]

(***************************************************************************)
(* Parameter maps.  A Python object is a record of its type t and its      *)
(* content: an integer is hi * 2^32 + n with n a signed 32-bit word, a     *)
(* float is n, a bool is n = 1 or 0, a text is s, an array of doubles is   *)
(* a.  A native variant value is a record of its alternative and content.  *)
(***************************************************************************)
PyObj(t, hi, n, s, a) == [t |-> t, hi |-> hi, n |-> n, s |-> s, a |-> a]
PyFloat(n) == PyObj("float", 0, n, "", <<>>)
PyLong(hi, n) == PyObj("int", hi, n, "", <<>>)
PyStr(s) == PyObj("str", 0, 0, s, <<>>)
PyUnicode(s) == PyObj("unicode", 0, 0, s, <<>>)
PyBool(b) == PyObj("bool", 0, IF b THEN 1 ELSE 0, "", <<>>)
PyArray1(a) == PyObj("ndarray", 0, 0, "", a)
PyList0 == PyObj("list", 0, 0, "", <<>>)

PyString_Check(obj) == obj.t = "str"
PyUnicode_Check(obj) == obj.t = "unicode"
\* bool is a subclass of int.
PyInt_Check(obj) == obj.t \in {"int", "bool"}
PyFloat_Check(obj) == obj.t = "float"
PyBool_Check(obj) == obj.t = "bool"
PyArray_Check(obj) == obj.t = "ndarray"
PyBytes_Check(obj) == obj.t = "str"

Variant(which, n, s, a) == [which |-> which, n |-> n, s |-> s, a |-> a]
\* The variant built from the literal 0 of `return 0`.
VariantOfZero == Variant("int", 0, "", <<>>)

Converted(value, err) == [value |-> value, err |-> err]

\* static_cast<int> (PyInt_AsLong (obj)): the low 32 bits of the long.
PyInt_AsInt(obj) == obj.n

\* detail::toParameterValue (obj)
toParameterValue(obj) ==
  IF PyString_Check(obj) THEN Converted(Variant("string", 0, obj.s, <<>>), NoErr)
  ELSE IF PyUnicode_Check(obj)
    THEN Converted(Variant("string", 0, obj.s, <<>>), NoErr)
  ELSE IF PyInt_Check(obj)
    THEN Converted(Variant("int", PyInt_AsInt(obj), "", <<>>), NoErr)
  ELSE IF PyFloat_Check(obj)
    THEN Converted(Variant("double", obj.n, "", <<>>), NoErr)
  ELSE Converted(VariantOfZero,
                 "invalid parameter value (should be double, int or string).")

\* PyArray_ITEMSIZE (obj) of an array of doubles.
PyArray_ITEMSIZE(obj) == 8

\* Eigen::Map over PyArray_DATA (obj) with n items: the items of the array,
\* then whatever lies behind them in memory.
MapData(obj, n, junk) ==
  [k \in 1..n |-> IF k <= Len(obj.a) THEN obj.a[k] ELSE junk]

\* detail::toStateParameterValue (obj)
toStateParameterValue(obj, junk) ==
  IF PyBool_Check(obj)
    THEN Converted(Variant("bool", obj.n, "", <<>>), NoErr)
  ELSE IF PyArray_Check(obj)
    THEN Converted(Variant("vector", 0, "",
                           MapData(obj, PyArray_ITEMSIZE(obj), junk)), NoErr)
  ELSE IF PyString_Check(obj) \/ PyUnicode_Check(obj)
          \/ PyInt_Check(obj) \/ PyFloat_Check(obj)
    THEN toParameterValue(obj)
  ELSE Converted(VariantOfZero,
         "invalid parameter value (should be double, int, string,bool or NumPy vector).")

\* detail::ParameterValueVisitor and detail::StateParameterValueVisitor:
\* the Python object built from a stored value.
StateParameterValueVisitor(p) ==
  CASE p.which = "double" -> PyFloat(p.n)
    [] p.which = "int" -> PyLong(0, p.n)
    [] p.which = "string" -> PyStr(p.s)
    [] p.which = "bool" -> PyBool(p.n = 1)
    [] p.which = "vector" -> PyArray1(p.a)

\* detail::ParameterValueVisitor
ParameterValueVisitor(p) ==
  CASE p.which = "double" -> PyFloat(p.n)
    [] p.which = "int" -> PyLong(0, p.n)
    [] p.which = "string" -> PyStr(p.s)

\* getParameter (parameter): the tuple (description, value).
getParameter(parameter) ==
  [description |-> parameter.description,
   value |-> ParameterValueVisitor(parameter.value)]

\* getStateParameter (parameter)
getStateParameter(parameter) ==
  [description |-> parameter.description,
   value |-> StateParameterValueVisitor(parameter.value)]

(***************************************************************************)
(* The arguments of the set* calls.  An entry of a dictionary is a key and *)
(* the object stored under it; a well-formed one has a text key and a      *)
(* tuple (description, value).                                             *)
(***************************************************************************)
Names == {"a", "b"}
Description == "desc"

PyTuple(len, desc, val) == [t |-> "tuple", len |-> len, desc |-> desc, val |-> val]
Entry(key, value) == [key |-> key, value |-> value]

\* 2^32 + 5: an integer outside the signed 32-bit range.
WideInts == {PyLong(1, 5)}
SolverValues == {PyFloat(2), PyLong(0, 7), PyStr("x")} \cup WideInts
StateValues == {PyBool(TRUE), PyArray1(<<3, 4>>), PyLong(0, 7)}
UnsupportedValues == {PyList0}
JunkVals == {0, 9}

\* Entries the set* calls skip: a key that is no text, a value that is no
\* tuple of two, a description that is no text.
MalformedEntries ==
  {Entry(PyLong(0, 1), PyTuple(2, PyStr(Description), PyFloat(2))),
   Entry(PyStr("b"), PyTuple(3, PyStr(Description), PyFloat(2))),
   Entry(PyStr("b"), [PyTuple(2, PyStr(Description), PyFloat(2))
                        EXCEPT !.t = "list"]),
   Entry(PyStr("b"), PyTuple(2, PyLong(0, 1), PyFloat(2)))}

WellFormed(name, val) == Entry(PyStr(name), PyTuple(2, PyStr(Description), val))

\* The dictionaries: at most one entry under "a", then at most one under
\* "b" or a malformed one.
Dicts(values) ==
  {[t |-> "dict", items |-> first \o second] :
     first \in {<<>>} \cup {<<WellFormed("a", v)>> : v \in values},
     second \in {<<>>} \cup {<<WellFormed("b", v)>> : v \in values}
                \cup {<<e>> : e \in MalformedEntries}}
NotDicts == {[t |-> "list", items |-> <<>>], [t |-> "None", items |-> <<>>]}

PyDict_Check(obj) == obj.t = "dict"
PyTuple_Check(obj) == obj.t = "tuple"

\* parameters[str_key] = parameter
MapPut(map, name, parameter) ==
  [k \in DOMAIN map \cup {name} |-> IF k = name THEN parameter ELSE map[k]]

\* The loop of setSolverParameters over the items PyDict_Next yields:
\* the map after it, and the error a conversion left pending.
RECURSIVE SetEntries(_, _, _, _)
SetEntries(items, map, err, state) ==
  IF items = <<>> THEN [map |-> map, err |-> err]
  ELSE LET key == Head(items).key
           value == Head(items).value
       IN IF ~(PyBytes_Check(key) \/ PyUnicode_Check(key))
            THEN SetEntries(Tail(items), map, err, state)
          ELSE IF ~PyTuple_Check(value) \/ value.len # 2
            THEN SetEntries(Tail(items), map, err, state)
          ELSE IF ~(PyBytes_Check(value.desc) \/ PyUnicode_Check(value.desc))
            THEN SetEntries(Tail(items), map, err, state)
          ELSE LET c == IF state.on THEN toStateParameterValue(value.val, state.junk)
                        ELSE toParameterValue(value.val)
               IN SetEntries(Tail(items),
                             MapPut(map, key.s,
                                    [description |-> value.desc.s,
                                     value |-> c.value]),
                             IF c.err # NoErr THEN c.err ELSE err, state)

PmReturn(op, arg, before, ret, err) ==
  [NoPmCall EXCEPT !.op = op, !.arg = arg, !.before = before, !.ret = ret,
                   !.err = err]

\* Py_None returned, possibly with an error left pending by a conversion.
OfNone == "None"

\* createSolver, then the solver state handed to an iteration callback.
InitPm ==
  /\ FnIdle
  /\ pbInSize = 1 /\ startingPoint = Absent
  /\ argumentBounds = <<InfiniteInterval>> /\ argumentScales = <<1>>
  /\ constraints = <<>> /\ handleRefs = <<>> /\ solvers = 1
  /\ pbCall = NoPbCall
  /\ result_ = Unsolved /\ solveCalled = FALSE /\ outcomes = <<>>
  /\ svCall = NoSvCall
  /\ foreign = <<>> /\ deleted = <<>> /\ callbacks_ = <<>>
  /\ registry = [next |-> 1, live |-> {}, shared |-> {}]
  /\ pool_ = NoPool
  /\ proc \in [build : {"release"}, use : {"parameters", "stateParameters"},
               problem : {TRUE}, multiplexer : {FALSE}, aborted : {"no"}]
  /\ BdIdle

pmRest == <<fnVars, pbVars, result_, solveCalled, outcomes, svCall, owVars,
            evVars, converted, stVars>>

\* setSolverParameters (solver, dict)
setSolverParameters(arg) ==
  /\ IF ~PyDict_Check(arg)
     THEN /\ pmCall' = PmReturn("setSolverParameters", arg, parameters, "error",
                                "2nd argument must be a dictionary.")
          /\ UNCHANGED parameters
     ELSE LET r == SetEntries(arg.items, EmptyMap, NoErr, [on |-> FALSE, junk |-> 0])
          IN /\ parameters' = r.map
             /\ pmCall' = PmReturn("setSolverParameters", arg, parameters,
                                   OfNone, r.err)
  /\ UNCHANGED <<stateParameters, pmRest>>

\* setSolverParameter (solver, key, value, description)
setSolverParameter(key, value, desc) ==
  /\ LET str_key == IF PyBytes_Check(key) \/ PyUnicode_Check(key) THEN key.s ELSE ""
         description == IF PyBytes_Check(desc) \/ PyUnicode_Check(desc)
                        THEN desc.s ELSE ""
         c == toParameterValue(value)
     IN /\ parameters' = MapPut(parameters, str_key,
                                [description |-> description, value |-> c.value])
        /\ pmCall' = PmReturn("setSolverParameter",
                              [t |-> "args", items |-> <<Entry(key, PyTuple(2, desc, value))>>],
                              parameters, OfNone, c.err)
  /\ UNCHANGED <<stateParameters, pmRest>>

\* setSolverStateParameters (state, dict).  The vector of an array is read
\* with the array's item size as its length: what lies behind a shorter
\* array comes out of the memory after it.
setSolverStateParameters(arg, junk) ==
  /\ IF ~PyDict_Check(arg)
     THEN /\ pmCall' = PmReturn("setSolverStateParameters", arg, stateParameters,
                                "error", "2nd argument must be a dictionary.")
          /\ UNCHANGED stateParameters
     ELSE LET r == SetEntries(arg.items, EmptyMap, NoErr, [on |-> TRUE, junk |-> junk])
          IN /\ stateParameters' = r.map
             /\ pmCall' = PmReturn("setSolverStateParameters", arg,
                                   stateParameters, OfNone, r.err)
  /\ UNCHANGED <<parameters, pmRest>>

\* getSolverParameters (solver)
getSolverParameters ==
  /\ pmCall.op # "getSolverParameters"
  /\ pmCall' = [PmReturn("getSolverParameters", pmCall.arg, parameters,
                          "dict", NoErr)
                  EXCEPT !.prev = pmCall.op,
                         !.out = [name \in DOMAIN parameters |->
                                    getParameter(parameters[name])]]
  /\ UNCHANGED <<parameters, stateParameters, pmRest>>

\* getSolverStateParameters (state)
getSolverStateParameters ==
  /\ pmCall.op # "getSolverStateParameters"
  /\ pmCall' = [PmReturn("getSolverStateParameters", pmCall.arg,
                          stateParameters, "dict", NoErr)
                  EXCEPT !.prev = pmCall.op,
                         !.out = [name \in DOMAIN stateParameters |->
                                    getStateParameter(stateParameters[name])]]
  /\ UNCHANGED <<parameters, stateParameters, pmRest>>

NextPm ==
  \/ Uses("parameters") /\ getSolverParameters
  \/ Uses("stateParameters") /\ getSolverStateParameters
  \/ \E arg \in Dicts(SolverValues \cup UnsupportedValues) \cup NotDicts :
       Uses("parameters") /\ setSolverParameters(arg)
  \/ \E key \in {PyStr("b"), PyLong(0, 1)},
        value \in {PyLong(0, 7)} \cup WideInts \cup UnsupportedValues,
        desc \in {PyStr(Description)} :
       Uses("parameters") /\ setSolverParameter(key, value, desc)
  \/ \E arg \in Dicts(StateValues \cup UnsupportedValues) \cup NotDicts,
        junk \in JunkVals :
       Uses("stateParameters") /\ setSolverStateParameters(arg, junk)

SpecPm == InitPm /\ [][NextPm]_vars

(***************************************************************************)
(* Properties of the parameter maps (SpecPm).                              *)
(***************************************************************************)
SetMapOps == {"setSolverParameters", "setSolverStateParameters"}
StoredMap == IF pmCall.op = "setSolverStateParameters" THEN stateParameters
             ELSE parameters

\* The mapping passed in has text keys and (description, value) pairs with
\* a value of a supported kind.
IsNameToPair(arg) ==
  /\ PyDict_Check(arg)
  /\ \A k \in 1..Len(arg.items) :
       /\ arg.items[k].key.t = "str"
       /\ arg.items[k].value.t = "tuple" /\ arg.items[k].value.len = 2
       /\ arg.items[k].value.desc.t = "str"
       /\ arg.items[k].value.val \notin UnsupportedValues

PassedNames(arg) == {arg.items[k].key.s : k \in 1..Len(arg.items)}

\* The stored map has the names of the mapping passed in and no other.
HasNamesOf(map, arg) == DOMAIN map = PassedNames(arg)

\* The stored map holds, under each name passed in, the description and
\* the value passed in.
HasEntriesOf(map, arg) ==
  \A k \in 1..Len(arg.items) :
    LET e == arg.items[k]
    IN /\ e.key.s \in DOMAIN map
       /\ map[e.key.s].description = e.value.desc.s
       /\ StateParameterValueVisitor(map[e.key.s].value) = e.value.val

\* C15: after a successful setSolverParameters or setSolverStateParameters
\* the stored map holds exactly the entries of the mapping passed in and
\* none of the earlier ones; when the second argument is no mapping the
\* call fails and the stored map is as it was.
C15_SetReplacesWholeMap ==
  pmCall.op \in SetMapOps =>
    /\ (IsNameToPair(pmCall.arg) /\ pmCall.ret = OfNone /\ pmCall.err = NoErr) =>
         HasNamesOf(StoredMap, pmCall.arg) /\ HasEntriesOf(StoredMap, pmCall.arg)
    /\ ~PyDict_Check(pmCall.arg) =>
         pmCall.ret = "error" /\ StoredMap = pmCall.before

\* What does hold: the names are replaced as a whole, and a second argument
\* that is no dictionary changes nothing.
SetReplacesNames ==
  pmCall.op \in SetMapOps =>
    /\ IsNameToPair(pmCall.arg) => HasNamesOf(StoredMap, pmCall.arg)
    /\ ~PyDict_Check(pmCall.arg) =>
         pmCall.ret = "error" /\ StoredMap = pmCall.before

(***************************************************************************)
(* The evaluation calls on caller arrays of any length, and the NumPy      *)
(* views the native callbacks create (SpecEv).  The caller's x and output  *)
(* are one-dimensional arrays of doubles; the output of jacobian is its    *)
(* row-major data.                                                         *)
(***************************************************************************)
MaxEvals == 2

\* A function with its callables bound: bindCompute, and for a
\* differentiable function bindGradient and possibly bindJacobian, have run.
InitEv ==
  /\ kind \in Kinds
  /\ inSize \in 1..MaxIn
  /\ outSize \in 1..MaxOut
  /\ alive = TRUE
  /\ computeCallback_ \in {"f1", "raiser"}
  /\ gradientCallback_ = IF IsDifferentiable(kind) THEN "f1" ELSE Null
  /\ jacobianCallback_ \in IF IsDifferentiable(kind) THEN {Null, "f2"} ELSE {Null}
  /\ refs = [o \in PyObjects |-> SlotsHolding(o)]
  /\ status = "running"
  /\ lastCall = NoCall
  /\ PbIdle

\* The caller's arrays: one item short, exact, one item long.
ArraysNear(n, v) == {ConstVector(len, v) : len \in (n - 1)..(n + 1)}
XArraysNear(n) == {[k \in 1..len |-> k] : len \in (n - 1)..(n + 1)}

Over(n, len) == IF n > len THEN n - len ELSE 0

\* Row-major data of a matrix with n columns.
Flat(matrix, n) ==
  [k \in 1..(Len(matrix) * n) |-> matrix[((k - 1) \div n) + 1][((k - 1) % n) + 1]]

\* resultEigen = ...: the first Len (out) items behind the array's data
\* are assigned; those of them that lie in the array are the array's.
AssignMapped(array, out) ==
  [k \in 1..Len(array) |-> IF k <= Len(out) THEN out[k] ELSE array[k]]

\* The views of one evaluation: each call of a Python callable leaves the
\* two arrays it was handed with one reference each, and the argument
\* tuple as well when checkPythonError throws before its Py_DECREF.
ViewsAfter(v, r) ==
  [arrays |-> v.arrays + 2 * Len(r.calls),
   arglists |-> v.arglists + (IF r.thrown THEN 1 ELSE 0),
   calls |-> v.calls + 1]

\* What an exported evaluation records: x and output as handed in, the
\* output afterwards, and the items read and written behind their ends.
Accessed(op, x, before, n, out, r, crash) ==
  LET xRead == Over(n, Len(x))
      outWritten == IF r.thrown THEN 0 ELSE Over(Len(out), Len(before))
  IN [op |-> op, x |-> x, before |-> before,
      after |-> IF r.thrown \/ crash THEN before ELSE AssignMapped(before, out),
      xRead |-> xRead, outWritten |-> outWritten,
      ret |-> IF crash /\ xRead + outWritten > 0 THEN "crashed"
              ELSE IF r.thrown THEN "terminated"
              ELSE IF r.pyerr # NoErr THEN "error" ELSE "ok",
      err |-> IF r.thrown THEN r.what ELSE r.pyerr, calls |-> r.calls]

Ended(ret) == ret \in {"crashed", "terminated"}

evRest == <<kind, inSize, outSize, alive, computeCallback_, gradientCallback_,
            jacobianCallback_, refs, lastCall, pbVars, result_, solveCalled,
            outcomes, svCall, owVars, pmVars, converted, stVars>>

\* compute (function, result, x)
computeArrays(x, result, junk, crash) ==
  /\ Callable /\ views.calls < MaxEvals
  /\ LET xEigen == [k \in 1..inSize |-> IF k <= Len(x) THEN x[k] ELSE junk]
         r == FunctionCall(computeCallback_, outSize, xEigen)
     IN /\ access' = Accessed("compute", x, result, inSize, r.out, r, crash)
        /\ views' = ViewsAfter(views, r)
  /\ status' = IF Ended(access'.ret) THEN "terminated" ELSE status
  /\ UNCHANGED evRest

\* gradient (function, gradient, x, functionId)
gradientArrays(x, result, functionId, junk, crash) ==
  /\ Callable /\ views.calls < MaxEvals
  /\ IF ~IsDifferentiable(kind)
     THEN /\ access' = [NoAccess EXCEPT !.op = "gradient", !.x = x,
                 !.before = result, !.after = result, !.ret = "error",
                 !.err = "argument 1 should be a differentiable function object"]
          /\ views' = [views EXCEPT !.calls = @ + 1]
     ELSE LET xEigen == [k \in 1..inSize |-> IF k <= Len(x) THEN x[k] ELSE junk]
              r == GradientCall(gradientCallback_, inSize, xEigen, functionId)
          IN /\ access' = Accessed("gradient", x, result, inSize, r.out, r, crash)
             /\ views' = ViewsAfter(views, r)
  /\ status' = IF Ended(access'.ret) THEN "terminated" ELSE status
  /\ UNCHANGED evRest

\* jacobian (function, jacobian, x)
jacobianArrays(x, result, junk, crash) ==
  /\ Callable /\ views.calls < MaxEvals
  /\ IF ~IsDifferentiable(kind)
     THEN /\ access' = [NoAccess EXCEPT !.op = "jacobian", !.x = x,
                 !.before = result, !.after = result, !.ret = "error",
                 !.err = "argument 1 should be a differentiable function object"]
          /\ views' = [views EXCEPT !.calls = @ + 1]
     ELSE LET xEigen == [k \in 1..inSize |-> IF k <= Len(x) THEN x[k] ELSE junk]
              r == JacobianCall(jacobianCallback_, gradientCallback_,
                                outSize, inSize, xEigen)
          IN /\ access' = Accessed("jacobian", x, result, inSize,
                                   Flat(r.out, inSize), r, crash)
             /\ views' = ViewsAfter(views, r)
  /\ status' = IF Ended(access'.ret) THEN "terminated" ELSE status
  /\ UNCHANGED evRest

NextEv ==
  \/ \E x \in XArraysNear(inSize), result \in ArraysNear(outSize, 9),
        junk \in JunkVals, crash \in BOOLEAN :
       computeArrays(x, result, junk, crash)
  \/ \E x \in XArraysNear(inSize), result \in ArraysNear(inSize, 9),
        functionId \in 0..(outSize - 1), junk \in JunkVals, crash \in BOOLEAN :
       gradientArrays(x, result, functionId, junk, crash)
  \/ \E x \in XArraysNear(inSize), result \in ArraysNear(outSize * inSize, 9),
        junk \in JunkVals, crash \in BOOLEAN :
       jacobianArrays(x, result, junk, crash)

SpecEv == InitEv /\ [][NextEv]_vars

(***************************************************************************)
(* Properties of the evaluation on caller arrays (SpecEv).                 *)
(***************************************************************************)
\* The length the output of the last evaluation is to have.
ExpectedOutput ==
  IF access.op = "compute" THEN outSize
  ELSE IF access.op = "gradient" THEN inSize
  ELSE outSize * inSize

MisSized ==
  /\ access.op \in EvalOps
  /\ Len(access.x) # inSize \/ Len(access.before) # ExpectedOutput

\* C16: compute, gradient and jacobian on an x that has not inputSize items
\* or an output that has not the size of the result fail with an error,
\* invoke no callable and neither read nor write behind the arrays handed
\* in; the output is left as it was.
C16_MisSizedBuffersRejected ==
  MisSized =>
    /\ access.ret = "error"
    /\ access.calls = <<>>
    /\ access.xRead = 0 /\ access.outWritten = 0
    /\ access.after = access.before

\* C19: when an evaluation has returned, every view the native callbacks
\* created, and every argument tuple, has been released.
C19_ViewsReleasedAtReturn ==
  access.op \in EvalOps => views.arrays = 0 /\ views.arglists = 0

(***************************************************************************)
(* The handle converters (SpecCv).  A Python object handed to a converter  *)
(* is a capsule with its name and pointer, or an object of another type.   *)
(***************************************************************************)
CapsuleNames ==
  {FUNCTION_CAPSULE_NAME, PROBLEM_CAPSULE_NAME, SOLVER_CAPSULE_NAME,
   SOLVER_CALLBACK_CAPSULE_NAME, CALLBACK_MULTIPLEXER_CAPSULE_NAME,
   SOLVER_STATE_CAPSULE_NAME, RESULT_CAPSULE_NAME,
   RESULT_WITH_WARNINGS_CAPSULE_NAME, SOLVER_ERROR_CAPSULE_NAME,
   OPTIMIZATION_LOGGER_CAPSULE_NAME}

CapsuleObject(name) == [capsule |-> TRUE, name |-> name, ptr |-> [object |-> name]]
OtherObject(type) == [capsule |-> FALSE, name |-> type, ptr |-> NullPtr]
ConverterInputs ==
  {CapsuleObject(name) : name \in CapsuleNames}
  \cup {OtherObject(type) : type \in {"NoneType", "int", "list"}}

PyCapsule_CheckExact(obj) == obj.capsule

\* PyCapsule_GetName (obj): NULL when obj is not a capsule.
PyCapsule_GetName(obj) == IF obj.capsule THEN obj.name ELSE Null

ConverterFailed(err) == [ret |-> 0, err |-> err, address |-> NullPtr, crashed |-> FALSE]
ConverterDone(ptr) == [ret |-> 1, err |-> NoErr, address |-> ptr, crashed |-> FALSE]
\* The process ended inside the converter.
ConverterCrashed == [ret |-> 0, err |-> NoErr, address |-> NullPtr, crashed |-> TRUE]

\* The body shared by the converters that only call PyCapsule_GetPointer.
PointerOrError(obj, name, err) ==
  LET ptr == PyCapsule_GetPointer(obj, name)
  IN IF ptr = NullPtr THEN ConverterFailed(err) ELSE ConverterDone(ptr)

functionConverter(obj) ==
  IF ~PyCapsule_CheckExact(obj)
  THEN ConverterFailed("Invalid Python Function given.")
  ELSE PointerOrError(obj, FUNCTION_CAPSULE_NAME,
                      "Function object expected but another type was passed")

problemConverter(obj) ==
  PointerOrError(obj, PROBLEM_CAPSULE_NAME,
                 "Problem object expected but another type was passed")

factoryConverter(obj) ==
  PointerOrError(obj, SOLVER_CAPSULE_NAME,
                 "Problem object expected but another type was passed")

solverCallbackConverter(obj) ==
  PointerOrError(obj, SOLVER_CALLBACK_CAPSULE_NAME,
                 "Solver callback object expected but another type was passed")

multiplexerConverter(obj) ==
  PointerOrError(obj, CALLBACK_MULTIPLEXER_CAPSULE_NAME,
                 "Callback multiplexer object expected but another type was passed")

solverStateConverter(obj) ==
  PointerOrError(obj, SOLVER_STATE_CAPSULE_NAME,
                 "SolverState object expected but another type was passed")

\* std::strcmp on a null pointer is undefined: the process faults, or the
\* bytes read compare different from every name.
StrcmpOfNull == {"fault", "differs"}

\* detail::resultConverter: the name is compared before any test that obj
\* is a capsule.
resultConverter(obj, ub) ==
  LET capsule_name == PyCapsule_GetName(obj)
      failed == ConverterFailed("Result object expected but another type was passed")
  IN IF capsule_name = Null
     THEN IF ub = "fault" THEN ConverterCrashed ELSE failed
     ELSE IF capsule_name = RESULT_CAPSULE_NAME
     THEN ConverterDone(PyCapsule_GetPointer(obj, RESULT_CAPSULE_NAME))
     ELSE IF capsule_name = RESULT_WITH_WARNINGS_CAPSULE_NAME
     THEN ConverterDone(PyCapsule_GetPointer(obj, RESULT_WITH_WARNINGS_CAPSULE_NAME))
     ELSE failed

resultWithWarningsConverter(obj) ==
  PointerOrError(obj, RESULT_WITH_WARNINGS_CAPSULE_NAME,
                 "ResultWithWarnings object expected but another type was passed")

solverErrorConverter(obj) ==
  PointerOrError(obj, SOLVER_ERROR_CAPSULE_NAME,
                 "SolverError object expected but another type was passed")

Converters ==
  {"functionConverter", "problemConverter", "factoryConverter",
   "solverCallbackConverter", "multiplexerConverter", "solverStateConverter",
   "resultConverter", "resultWithWarningsConverter", "solverErrorConverter"}

RunConverter(converter, obj, ub) ==
  CASE converter = "functionConverter" -> functionConverter(obj)
    [] converter = "problemConverter" -> problemConverter(obj)
    [] converter = "factoryConverter" -> factoryConverter(obj)
    [] converter = "solverCallbackConverter" -> solverCallbackConverter(obj)
    [] converter = "multiplexerConverter" -> multiplexerConverter(obj)
    [] converter = "solverStateConverter" -> solverStateConverter(obj)
    [] converter = "resultConverter" -> resultConverter(obj, ub)
    [] converter = "resultWithWarningsConverter" -> resultWithWarningsConverter(obj)
    [] converter = "solverErrorConverter" -> solverErrorConverter(obj)

\* No object of the module exists yet; handles are made up for the calls.
InitCv == FnIdle /\ PbIdle

\* PyArg_ParseTuple (args, "O&...", converter, &address) of an exported
\* function, on the object obj.
parseHandle(converter, obj, ub) ==
  /\ ~converted.crashed
  /\ LET r == RunConverter(converter, obj, ub)
     IN converted' = [converter |-> converter, obj |-> obj, ret |-> r.ret,
                      err |-> r.err, address |-> r.address,
                      crashed |-> r.crashed]
  /\ UNCHANGED <<fnVars, pbVars, result_, solveCalled, outcomes, svCall, owVars,
                 pmVars, evVars, stVars>>

NextCv ==
  \E converter \in Converters, obj \in ConverterInputs, ub \in StrcmpOfNull :
    parseHandle(converter, obj, ub)

SpecCv == InitCv /\ [][NextCv]_vars

(***************************************************************************)
(* Properties of the converters (SpecCv).                                  *)
(***************************************************************************)
\* The capsule name each converter is to accept.
ExpectedName(converter) ==
  CASE converter = "functionConverter" -> FUNCTION_CAPSULE_NAME
    [] converter = "problemConverter" -> PROBLEM_CAPSULE_NAME
    [] converter = "factoryConverter" -> SOLVER_CAPSULE_NAME
    [] converter = "solverCallbackConverter" -> SOLVER_CALLBACK_CAPSULE_NAME
    [] converter = "multiplexerConverter" -> CALLBACK_MULTIPLEXER_CAPSULE_NAME
    [] converter = "solverStateConverter" -> SOLVER_STATE_CAPSULE_NAME
    [] converter = "resultConverter" -> RESULT_CAPSULE_NAME
    [] converter = "resultWithWarningsConverter" -> RESULT_WITH_WARNINGS_CAPSULE_NAME
    [] converter = "solverErrorConverter" -> SOLVER_ERROR_CAPSULE_NAME

Acceptable(converter, obj) ==
  /\ obj.capsule
  /\ \/ obj.name = ExpectedName(converter)
     \/ converter = "resultConverter" /\ obj.name = RESULT_WITH_WARNINGS_CAPSULE_NAME

TypeErrors ==
  {"Invalid Python Function given.",
   "Function object expected but another type was passed",
   "Problem object expected but another type was passed",
   "Solver callback object expected but another type was passed",
   "Callback multiplexer object expected but another type was passed",
   "SolverState object expected but another type was passed",
   "Result object expected but another type was passed",
   "ResultWithWarnings object expected but another type was passed",
   "SolverError object expected but another type was passed"}

UnwrapChecked ==
  IF Acceptable(converted.converter, converted.obj)
  THEN converted.ret = 1 /\ converted.address = converted.obj.ptr
  ELSE /\ converted.ret = 0 /\ converted.err \in TypeErrors
       /\ converted.address = NullPtr /\ ~converted.crashed

\* C18: a converter hands out the native pointer only for a capsule of the
\* name it expects (the result converter also for a result with warnings);
\* for every other capsule or object it fails with a type error and hands
\* out nothing.
C18_UnwrapChecksTheTag ==
  converted.converter # "none" => UnwrapChecked

\* What does hold: the same for every converter on every capsule, and for
\* every converter but the result converter on objects that are no capsule.
UnwrapChecksTheTagOfCapsules ==
  (converted.converter # "none"
     /\ (converted.obj.capsule \/ converted.converter # "resultConverter"))
    => UnwrapChecked

(***************************************************************************)
(* Capabilities (SpecCa): the calls that need a differentiable function,   *)
(* each on an object of its own.  A behaviour works on one function object *)
(* and its gradient and jacobian calls, or on the capsules the caller      *)
(* holds and one of createProblem, addConstraint and the function pool.    *)
(***************************************************************************)
InitCaHandles ==
  /\ FnIdle
  /\ startingPoint = Absent /\ constraints = <<>> /\ solvers = 0
  /\ pbCall = NoPbCall
  /\ handleRefs = [h \in Handles |-> IF h = Logger THEN 0 ELSE 1]
  /\ result_ = Unsolved /\ solveCalled = FALSE /\ outcomes = <<>>
  /\ svCall = NoSvCall
  /\ foreign = [h \in Handles |-> h # Logger]
  /\ deleted = [h \in Handles |-> 0]
  /\ callbacks_ = <<>>
  /\ registry = [next |-> 1, live |-> {}, shared |-> {}]
  /\ pool_ = NoPool
  /\ proc \in [build : {"release"}, use : {"create", "pool", "constraints"},
               problem : BOOLEAN, multiplexer : {FALSE}, aborted : {"no"}]
  /\ proc.problem = (proc.use # "create")
  /\ pbInSize = IF proc.problem THEN 1 ELSE 0
  /\ argumentBounds = [i \in 1..pbInSize |-> InfiniteInterval]
  /\ argumentScales = [i \in 1..pbInSize |-> 1]
  /\ BdIdle

InitCa == InitFn \/ InitCaHandles

\* createProblem (costFunction)
createProblem(f) ==
  /\ Running /\ ~proc.problem /\ foreign[f]
  /\ IF PyCapsule_GetPointer(Capsule(f), FUNCTION_CAPSULE_NAME) = NullPtr
     THEN /\ svCall' = MxReturn("createProblem", f, "error",
                 "Function object expected but another type was passed")
          /\ UNCHANGED <<proc, pbInSize, argumentBounds, argumentScales, built>>
     ELSE IF ~CfnDifferentiable(f)
     THEN /\ svCall' = MxReturn("createProblem", f, "error",
                 "argument 1 should be a differentiable function object")
          /\ UNCHANGED <<proc, pbInSize, argumentBounds, argumentScales, built>>
     ELSE /\ proc' = [proc EXCEPT !.problem = TRUE]
          /\ built' = [built EXCEPT !.problem = f]
          /\ pbInSize' = CfnIn(f)
          /\ argumentBounds' = [i \in 1..CfnIn(f) |-> InfiniteInterval]
          /\ argumentScales' = [i \in 1..CfnIn(f) |-> 1]
          /\ svCall' = MxReturn("createProblem", f, PROBLEM_CAPSULE_NAME, NoErr)
  /\ UNCHANGED <<foreign, deleted, callbacks_, registry, pool_, constraints,
                 handleRefs, startingPoint, solvers, pbCall, result_,
                 solveCalled, outcomes, fnVars, pmVars, evVars, converted,
                 solverState, stCall, reent>>

NextCa ==
  \/ \E o \in PyObjects : bindGradient(o)
  \/ \E o \in PyObjects : bindJacobian(o)
  \/ \E x \in XInputs(inSize), fill \in FillVals, id \in 0..(outSize - 1) :
       gradient(x, fill, id)
  \/ \E x \in XInputs(inSize), fill \in FillVals : jacobian(x, fill)
  \/ \E f \in CFns \cup {"cb1"} : Uses("create") /\ createProblem(f)
  \/ Uses("create") /\ destroyProblem
  \/ \E f \in CFns, b \in SharedBounds :
       Uses("constraints") /\ addSharedConstraint(f, b)
  \/ \E c \in {"g1", "cb1"}, list \in PoolLists, name \in PoolNames :
       Uses("pool") /\ createFunctionPool(c, list, name)

SpecCa == InitCa /\ [][NextCa]_vars

(***************************************************************************)
(* Properties of the capability tests (SpecCa).                            *)
(***************************************************************************)
\* The capsules that wrap a function without a gradient.
PlainFns == {"h1"}

DifferentiableOps == {"gradient", "jacobian", "bindGradient", "bindJacobian"}

CapabilityErrors ==
  {"argument 1 should be a differentiable function object",
   "instance of DifferentiableFunction expected as first argument",
   "2nd argument must be a differentiable function",
   "DifferentiableFunction object expected but another type was passed",
   "Function object expected but another type was passed"}

\* gradient, jacobian, bindGradient or bindJacobian on a plain function.
OnPlainFunction == lastCall.op \in DifferentiableOps /\ kind = "Function"

HasPlainMember(list) ==
  PyList_CheckExact(list) /\ \E k \in 1..Len(list.items) : list.items[k] \in PlainFns

\* C17: gradient, jacobian, bindGradient and bindJacobian on a function
\* that is not differentiable, createProblem and addConstraint given such a
\* function, and a pool whose member list holds one, fail with a type
\* error: no callable is called or bound, the output is left as it was, no
\* problem and no pool exists afterwards and no constraint has been added.
C17_CapabilityMismatchRejected ==
  /\ OnPlainFunction =>
       /\ lastCall.ret = "error" /\ lastCall.err \in CapabilityErrors
       /\ lastCall.calls = <<>> /\ lastCall.incref = <<>>
       /\ lastCall.after = lastCall.before
       /\ gradientCallback_ = Null /\ jacobianCallback_ = Null
       /\ \A o \in PyObjects : refs[o] = 0
  /\ (svCall.op = "createProblem" /\ svCall.arg \in PlainFns) =>
       /\ svCall.ret = "error" /\ svCall.err \in CapabilityErrors
       /\ ~proc.problem
  /\ (pbCall.op = "addConstraint" /\ pbCall.fn \in PlainFns) =>
       /\ pbCall.ret = "error" /\ pbCall.err \in CapabilityErrors
       /\ constraints = pbCall.before.constraints
       /\ \A k \in 1..Len(constraints) : constraints[k].fn \notin PlainFns
  /\ (svCall.op = "createFunctionPool" /\ HasPlainMember(svCall.arg)) =>
       /\ svCall.ret = "error" /\ svCall.err \in CapabilityErrors
       /\ pool_.state = "none" /\ pool_.functions = <<>>

C17_Witness ==
  /\ pbCall.op = "addConstraint" /\ pbCall.fn \in PlainFns
  /\ pbCall.ret = "error" /\ Len(constraints) = 1

\* The other cases of the claim are reached as well.
CapabilityCasesReached ==
  \/ OnPlainFunction /\ lastCall.op = "bindGradient" /\ lastCall.obj = "f1"
  \/ svCall.op = "createProblem" /\ svCall.arg \in PlainFns
  \/ svCall.op = "createFunctionPool" /\ svCall.arg.items = <<"g1", "h1">>
       /\ svCall.before = "g1"

(***************************************************************************)
(* Properties of the values of the parameter maps (SpecPm).                *)
(***************************************************************************)
InvalidValueErrors ==
  {"invalid parameter value (should be double, int or string).",
   "invalid parameter value (should be double, int, string,bool or NumPy vector)."}

\* The entries of the argument that carry a value of no supported kind
\* under a text key, in a tuple (description, value).
UnsupportedEntries(arg) ==
  {k \in 1..Len(arg.items) :
     /\ arg.items[k].key.t = "str"
     /\ arg.items[k].value.t = "tuple" /\ arg.items[k].value.len = 2
     /\ arg.items[k].value.desc.t = "str"
     /\ arg.items[k].value.val \in UnsupportedValues}

SetOps == SetMapOps \cup {"setSolverParameter"}

\* C22: a set call given a value of no supported kind raises the invalid
\* parameter value error, stores no entry under that name and leaves the
\* stored map as it was before the call.
C22_UnsupportedValueChangesNothing ==
  (pmCall.op \in SetOps /\ UnsupportedEntries(pmCall.arg) # {}) =>
    /\ pmCall.err \in InvalidValueErrors
    /\ StoredMap = pmCall.before

\* What does hold: the error is raised.
UnsupportedValueRaises ==
  (pmCall.op \in SetOps /\ UnsupportedEntries(pmCall.arg) # {}) =>
    pmCall.err \in InvalidValueErrors

\* The last call was a get that followed the given set call.
GetAfter(get, set) == pmCall.op = get /\ pmCall.prev = set

\* The dictionary returned holds, under each name passed in, the
\* description and the value passed in.
ReturnsEntriesOf(out, arg) ==
  \A k \in 1..Len(arg.items) :
    LET e == arg.items[k]
    IN /\ e.key.s \in DOMAIN out
       /\ out[e.key.s].description = e.value.desc.s
       /\ out[e.key.s].value = e.value.val

\* C23: getSolverStateParameters after setSolverStateParameters returns,
\* under each name and description passed in, a value of the same kind and
\* content: a boolean as a boolean, a vector with the same items.
C23_StateParameterRoundTrip ==
  (GetAfter("getSolverStateParameters", "setSolverStateParameters")
     /\ IsNameToPair(pmCall.arg)) =>
    ReturnsEntriesOf(pmCall.out, pmCall.arg)

HasVector(arg) ==
  \E k \in 1..Len(arg.items) : arg.items[k].value.val.t = "ndarray"

\* What does hold: the same for the mappings without a vector.
StateParameterRoundTripOfScalars ==
  (GetAfter("getSolverStateParameters", "setSolverStateParameters")
     /\ IsNameToPair(pmCall.arg) /\ ~HasVector(pmCall.arg)) =>
    ReturnsEntriesOf(pmCall.out, pmCall.arg)

\* The call before the get passed an integer under a text name.
IntegerWasSet ==
  /\ GetAfter("getSolverParameters", "setSolverParameter")
  /\ pmCall.arg.items[1].key.t = "str"
  /\ pmCall.arg.items[1].value.val.t = "int"

\* C24: getSolverParameters after setSolverParameter (name, v) with an
\* integer v returns v under that name.
C24_IntegerKeepsItsValue ==
  IntegerWasSet => ReturnsEntriesOf(pmCall.out, pmCall.arg)

\* What does hold: the same for the integers of the signed 32-bit range.
SmallIntegerKeepsItsValue ==
  (IntegerWasSet /\ pmCall.arg.items[1].value.val.hi = 0) =>
    ReturnsEntriesOf(pmCall.out, pmCall.arg)

(***************************************************************************)
(* The solver state and the optional values (SpecSt).  The caller works    *)
(* either on a problem or on the solver state that an iteration callback   *)
(* is handed; the state's x has the size of the problem's input.           *)
(***************************************************************************)
\* PyArray_Check on an object of the problem's calls.
IsArray(a) == a.dtype \in DTypes

\* A list of n numbers, which is no NumPy array.
ListInput(n) == [dtype |-> "list", shape |-> <<n>>, data |-> [k \in 1..n |-> k]]

\* static_cast<double*> (PyArray_DATA (a)) [k]: the bytes of item k read as
\* a double, whatever the array's dtype.
RawDouble1(a, k) ==
  IF a.dtype = "f8" THEN a.data[k] ELSE BitsAsDouble(a.data[k])

\* Second argument of setSolverStateX besides the arrays of one dimension.
OtherXInputs(n) == {ListInput(n)}

\* Second argument of the calls that parse a double; the integers are of
\* the 32-bit range, so that the double is the number n of the object.
ScalarInputs == {PyFloat(2), PyFloat(3), PyLong(0, 7), PyStr("x"), PyList0}

\* PyArg_ParseTuple format "d": a float, or an integer converted to one.
ParseDouble(obj) ==
  IF obj.t \in {"float", "int", "bool"}
  THEN [ok |-> TRUE, value |-> obj.n, err |-> NoErr]
  ELSE [ok |-> FALSE, value |-> 0, err |-> "a float is required"]

InitSt ==
  /\ pbInSize \in 1..MaxIn
  /\ startingPoint = Absent
  /\ argumentBounds = [i \in 1..pbInSize |-> InfiniteInterval]
  /\ argumentScales = [i \in 1..pbInSize |-> 1]
  /\ constraints = <<>>
  /\ handleRefs = [f \in CFns |-> 1]
  /\ solvers = 1
  /\ pbCall = NoPbCall
  /\ FnIdle
  /\ result_ = Unsolved /\ solveCalled = FALSE /\ outcomes = <<>>
  /\ svCall = NoSvCall
  /\ foreign = <<>> /\ deleted = <<>> /\ callbacks_ = <<>>
  /\ registry = [next |-> 1, live |-> {}, shared |-> {}]
  /\ pool_ = NoPool
  /\ proc \in [build : {"release"}, use : {"problem", "state"},
               problem : {TRUE}, multiplexer : {FALSE}, aborted : {"no"}]
  /\ parameters = EmptyMap /\ stateParameters = EmptyMap /\ pmCall = NoPmCall
  /\ access = NoAccess /\ views = NoViews /\ converted = NoConversion
  /\ solverState = [NoState EXCEPT !.x = [k \in 1..pbInSize |-> 0]]
  /\ stCall = NoStCall
  /\ built = NoBuilt
  /\ reent = NoReent

StReturn(op, arg, ret, err) ==
  [op |-> op, arg |-> arg, ret |-> ret, err |-> err, before |-> solverState]

stRest == <<fnVars, pbVars, result_, solveCalled, outcomes, svCall, owVars,
            pmVars, evVars, converted, built, reent>>

\* setSolverStateX (state, x)
setSolverStateX(py_parameters) ==
  /\ IF ~IsArray(py_parameters)
     THEN /\ stCall' = StReturn("setSolverStateX", py_parameters, "error",
                                "2nd argument must be a NumPy array.")
          /\ UNCHANGED solverState
     ELSE IF \/ Len(py_parameters.shape) # 1
             \/ Len(solverState.x) # py_parameters.shape[1]
     THEN /\ stCall' = StReturn("setSolverStateX", py_parameters, "error",
                                "x vector size is invalid.")
          /\ UNCHANGED solverState
     ELSE /\ solverState' =
               [solverState EXCEPT
                  !.x = [k \in 1..py_parameters.shape[1] |->
                           RawDouble1(py_parameters, k)]]
          /\ stCall' = StReturn("setSolverStateX", py_parameters, "ok", NoErr)
  /\ UNCHANGED stRest

\* Py_None as a Python object.
PyNoneObj == PyObj("None", 0, 0, "", <<>>)

\* getSolverStateCost (state)
getSolverStateCost ==
  IF ~solverState.cost.set THEN PyNoneObj ELSE PyFloat(solverState.cost.value)

\* A set of the cost that stores the double before it looks at the parse.
setSolverStateCostEager(obj) ==
  /\ LET cost == ParseDouble(obj)
     IN /\ solverState' = [solverState EXCEPT !.cost = Present(cost.value)]
        /\ stCall' = StReturn("setSolverStateCost", obj,
                              IF cost.ok THEN "ok" ELSE "error", cost.err)
  /\ UNCHANGED stRest

\* setSolverStateCost (state, cost)
setSolverStateCost(obj) ==
  /\ LET cost == ParseDouble(obj)
     IN IF ~cost.ok
        THEN /\ stCall' = StReturn("setSolverStateCost", obj, "error", cost.err)
             /\ UNCHANGED solverState
        ELSE /\ solverState' = [solverState EXCEPT !.cost = Present(cost.value)]
             /\ stCall' = StReturn("setSolverStateCost", obj, "ok", NoErr)
  /\ UNCHANGED stRest

\* getSolverStateConstraintViolation (state)
getSolverStateConstraintViolation ==
  IF ~solverState.constraintViolation.set THEN PyNoneObj
  ELSE PyFloat(solverState.constraintViolation.value)

\* setSolverStateConstraintViolation (state, violation)
setSolverStateConstraintViolation(obj) ==
  /\ LET violation == ParseDouble(obj)
     IN IF ~violation.ok
        THEN /\ stCall' = StReturn("setSolverStateConstraintViolation", obj,
                                   "error", violation.err)
             /\ UNCHANGED solverState
        ELSE /\ solverState' = [solverState EXCEPT
                                  !.constraintViolation = Present(violation.value)]
             /\ stCall' = StReturn("setSolverStateConstraintViolation", obj,
                                   "ok", NoErr)
  /\ UNCHANGED stRest

NextSt ==
  \/ \E a \in VectorInputs(pbInSize) : Uses("problem") /\ setStartingPoint(a)
  \/ \E a \in MatrixInputs(pbInSize), junk \in ArrayJunk :
       Uses("problem") /\ setArgumentBounds(a, junk)
  \/ \E a \in VectorInputs(pbInSize), junk \in ArrayJunk :
       Uses("problem") /\ setArgumentBounds(a, junk)
  \/ \E a \in VectorInputs(pbInSize) : Uses("problem") /\ setArgumentScales(a)
  \/ \E a \in VectorInputs(pbInSize) : Uses("state") /\ setSolverStateX(a)
  \/ \E a \in OtherXInputs(pbInSize) : Uses("state") /\ setSolverStateX(a)
  \/ Uses("state") /\ setSolverStateX(Array2("f8", pbInSize, 2, 0))
  \/ \E obj \in ScalarInputs : Uses("state") /\ setSolverStateCost(obj)
  \/ \E obj \in ScalarInputs :
       Uses("state") /\ setSolverStateConstraintViolation(obj)

SpecSt == InitSt /\ [][NextSt]_vars

SizeErrors == {"invalid size", "x vector size is invalid."}

\* The last call on the problem was a set given an array of another size
\* than the problem's: another length for the starting point and the
\* scales, another shape than (inputSize, 2) for the bounds.
MisSizedProblemSet ==
  \/ /\ pbCall.op \in {"setStartingPoint", "setArgumentScales"}
     /\ pbCall.arg.shape # <<pbInSize>>
  \/ /\ pbCall.op = "setArgumentBounds"
     /\ pbCall.arg.shape # <<pbInSize, 2>>

\* The last call on the state was a set of x given an array that has not
\* one dimension or not the length of x.
MisSizedStateSet ==
  /\ stCall.op = "setSolverStateX"
  /\ IsArray(stCall.arg)
  /\ stCall.arg.shape # <<Len(stCall.before.x)>>

\* C25: a size-checked set given an array of another size fails with a
\* size error and leaves the starting point, the scales, the bounds or x
\* as they were before the call.
C25_MisSizedSetChangesNothing ==
  /\ MisSizedProblemSet =>
       /\ pbCall.ret = "error" /\ pbCall.err \in SizeErrors
       /\ startingPoint = pbCall.before.startingPoint
       /\ argumentScales = pbCall.before.argumentScales
       /\ argumentBounds = pbCall.before.argumentBounds
  /\ MisSizedStateSet =>
       /\ stCall.ret = "error" /\ stCall.err \in SizeErrors
       /\ solverState = stCall.before

\* What does hold: the same for every mis-sized array but the bounds of one
\* dimension.
MisSizedSetOfCheckedDimensions ==
  /\ (MisSizedProblemSet
        /\ ~(pbCall.op = "setArgumentBounds" /\ Len(pbCall.arg.shape) = 1)) =>
       /\ pbCall.ret = "error" /\ pbCall.err \in SizeErrors
       /\ startingPoint = pbCall.before.startingPoint
       /\ argumentScales = pbCall.before.argumentScales
       /\ argumentBounds = pbCall.before.argumentBounds
  /\ MisSizedStateSet =>
       /\ stCall.ret = "error" /\ stCall.err \in SizeErrors
       /\ solverState = stCall.before


\* The step ends in a state whose last call on the problem, or on the
\* solver state, is a successful call of the given set.
SetsOnProblem(op) == pbCall'.op = op /\ pbCall'.ret = "ok"
SetsOnState(op) == stCall'.op = op /\ stCall'.ret = "ok"

\* The array of doubles that holds the items of the array a.
AsDoubles(a) == [dtype |-> "f8", shape |-> a.shape, data |-> a.data]

\* Each get returns the absent value at first; a step that is a successful
\* set makes the get return the value set, and every other step, a rejected
\* set among them, leaves what the get returns as it is.
OptionalValuesFollowSets ==
  /\ IF SetsOnProblem("setStartingPoint")
     THEN getStartingPoint' = AsDoubles(pbCall'.arg)
     ELSE getStartingPoint' = getStartingPoint
  /\ IF SetsOnState("setSolverStateCost")
     THEN getSolverStateCost' = PyFloat(stCall'.arg.n)
     ELSE getSolverStateCost' = getSolverStateCost
  /\ IF SetsOnState("setSolverStateConstraintViolation")
     THEN getSolverStateConstraintViolation' = PyFloat(stCall'.arg.n)
     ELSE getSolverStateConstraintViolation' = getSolverStateConstraintViolation

\* C26: getStartingPoint, getSolverStateCost and
\* getSolverStateConstraintViolation return the absent value until the
\* first successful set of the value, and the value most recently set
\* after it; a rejected set does not make an absent value present.
C26_AbsentUntilFirstSet ==
  /\ getStartingPoint = PyNone
  /\ getSolverStateCost = PyNoneObj
  /\ getSolverStateConstraintViolation = PyNoneObj
  /\ [][OptionalValuesFollowSets]_vars

\* A set of the cost was rejected while the cost was absent, after the
\* constraint violation had been set.
C26_Witness ==
  /\ stCall.op = "setSolverStateCost" /\ stCall.ret = "error"
  /\ getSolverStateCost = PyNoneObj
  /\ getSolverStateConstraintViolation = PyFloat(3)

\* A set of the starting point was rejected while it was absent, and one
\* was accepted.
StartingPointCasesReached ==
  \/ /\ pbCall.op = "setStartingPoint" /\ pbCall.ret = "error"
     /\ getStartingPoint = PyNone
  \/ /\ pbCall.op = "setStartingPoint" /\ pbCall.ret = "ok"
     /\ getStartingPoint # PyNone


(***************************************************************************)
(* Destruction of the capsules (SpecOw).                                   *)
(***************************************************************************)
\* The capsule of h has been created.
Created(h) == h # Logger \/ Logger \in registry.shared

\* The native object behind h is deleted once when the last reference on
\* its capsule is gone, and not before.
DeletedAtLastReference(h) ==
  deleted[h] = (IF Created(h) /\ handleRefs[h] = 0 THEN 1 ELSE 0)

\* C27: the destructor of every capsule retrieves the pointer under the
\* name the capsule was created with: the native object is deleted exactly
\* once, when the last reference on the capsule is released, and no
\* destructor fails to retrieve its pointer.
C27_DestructorUsesCreationTag ==
  /\ proc.aborted = "no"
  /\ \A h \in DOMAIN deleted : DeletedAtLastReference(h)

\* What does hold: the same for the functions and the logger.
DestructorOfFunctionsAndLogger ==
  \A h \in DOMAIN deleted : h \notin CbHandles => DeletedAtLastReference(h)


\* C28: after a createFunction<FunctionPool> that failed, every member
\* function capsule and the callback capsule have the reference count they
\* had before the call.
C28_FailedPoolAcquiresNothing ==
  (svCall.op = "createFunctionPool" /\ svCall.ret = "error") =>
    handleRefs = svCall.refs

\* What does hold: a call that fails before the list is converted, on the
\* callback or on an object that is no list, acquires nothing.
FailedBeforeTheListAcquiresNothing ==
  (svCall.op = "createFunctionPool" /\ svCall.ret = "error"
     /\ svCall.err \in {"Function object expected but another type was passed",
                        "Invalid Function list given."}
     /\ (svCall.arg.t # "list" \/ svCall.before \notin CFns)) =>
    handleRefs = svCall.refs


(***************************************************************************)
(* Objects built on other objects (SpecLt).  The caller holds either the   *)
(* function capsules, and builds a problem and a finite-difference wrapper *)
(* on them, or a problem, a solver and a multiplexer, and adds a logger.   *)
(***************************************************************************)
InitLt ==
  /\ FnIdle
  /\ startingPoint = Absent /\ constraints = <<>>
  /\ pbCall = NoPbCall
  /\ handleRefs = [h \in Handles |-> IF h = Logger THEN 0 ELSE 1]
  /\ result_ = Unsolved /\ solveCalled = FALSE /\ outcomes = <<>>
  /\ svCall = NoSvCall
  /\ foreign = [h \in Handles |-> h # Logger]
  /\ deleted = [h \in Handles |-> 0]
  /\ callbacks_ = <<>>
  /\ registry = [next |-> 1, live |-> {}, shared |-> {}]
  /\ pool_ = NoPool
  /\ proc \in [build : {"release"}, use : {"functions", "logger"},
               problem : BOOLEAN, multiplexer : BOOLEAN, aborted : {"no"}]
  /\ proc.problem = (proc.use = "logger")
  /\ proc.multiplexer = proc.problem
  /\ solvers = IF proc.problem THEN 1 ELSE 0
  /\ pbInSize = IF proc.problem THEN 1 ELSE 0
  /\ argumentBounds = [i \in 1..pbInSize |-> InfiniteInterval]
  /\ argumentScales = [i \in 1..pbInSize |-> 1]
  /\ parameters = EmptyMap /\ stateParameters = EmptyMap /\ pmCall = NoPmCall
  /\ access = NoAccess /\ views = NoViews /\ converted = NoConversion
  /\ solverState = NoState /\ stCall = NoStCall /\ reent = NoReent
  /\ built = [NoBuilt EXCEPT
                !.solver = IF proc.problem THEN "alive" ELSE "none"]

ltRest == <<fnVars, pbVars, result_, solveCalled, outcomes, owVars, pmVars,
            evVars, converted, solverState, stCall, reent>>

\* createFDWrapper<T> (function, eps): the wrapper is built on *function,
\* and no reference is taken on the capsule of the function.
createFDWrapper(f) ==
  /\ Running /\ built.wrapper = "none" /\ foreign[f]
  /\ IF PyCapsule_GetPointer(Capsule(f), FUNCTION_CAPSULE_NAME) = NullPtr
     THEN /\ svCall' = MxReturn("createFDWrapper", f, "error",
                 "Function object expected but another type was passed")
          /\ UNCHANGED built
     ELSE /\ built' = [built EXCEPT !.wrapper = f]
          /\ svCall' = MxReturn("createFDWrapper", f, FUNCTION_CAPSULE_NAME,
                                NoErr)
  /\ UNCHANGED ltRest

\* detail::destructor<T> on the capsule of the wrapper.
destroyFDWrapper ==
  /\ Running /\ built.wrapper # "none"
  /\ built' = [built EXCEPT !.wrapper = "none"]
  /\ svCall' = MxReturn("destroyFDWrapper", <<>>, "None", NoErr)
  /\ UNCHANGED ltRest

\* detail::destructor<factory_t> on the capsule of the solver, which
\* nothing but the caller holds.
destroySolver ==
  /\ Running /\ built.solver = "alive"
  /\ built' = [built EXCEPT !.solver = "destroyed"]
  /\ svCall' = MxReturn("destroySolver", <<>>, "None", NoErr)
  /\ UNCHANGED ltRest

NextLt ==
  \/ \E f \in CFns \cup {"cb1"} : Uses("functions") /\ createProblem(f)
  \/ Uses("functions") /\ destroyProblem
  \/ \E f \in CFns \cup {"cb1"} : Uses("functions") /\ createFDWrapper(f)
  \/ Uses("functions") /\ destroyFDWrapper
  \/ \E f \in CFns : Uses("functions") /\ release(f)
  \/ Uses("logger") /\ addOptimizationLogger
  \/ Uses("logger") /\ destroySolver
  \/ Uses("logger") /\ release(Logger)
  \/ Uses("logger") /\ destroyMultiplexer

SpecLt == InitLt /\ [][NextLt]_vars

\* The native object behind the capsule h is alive.
AliveObject(h) == Created(h) /\ deleted[h] = 0

\* C30: the cost function of a live problem, the function of a live
\* finite-difference wrapper and the solver of a live logger are alive,
\* whatever capsules the caller has released.
C30_ReferentsOutliveTheirUsers ==
  /\ (proc.problem /\ built.problem # "none") => AliveObject(built.problem)
  /\ built.wrapper # "none" => AliveObject(built.wrapper)
  /\ AliveObject(Logger) => built.solver = "alive"

\* What does hold: the logger is kept by the multiplexer it was added to
\* after the caller released it.
LoggerKeptByMultiplexer ==
  (\E k \in 1..Len(callbacks_) : callbacks_[k].h = Logger) =>
    AliveObject(Logger)


(***************************************************************************)
(* The dictionaries of the outcomes (SpecTd).  The caller holds one        *)
(* outcome capsule that minimum returned, and passes it to the three       *)
(* calls.  A dictionary is a function from its keys to their values.       *)
(***************************************************************************)
MaxWarnings == 2

WarningTexts == {"w1", "w2"}
Warnings == UNION {[1..n -> WarningTexts] : n \in 0..MaxWarnings}

\* The results a solver can store: x of the input size, one cost value.
Results ==
  {[inputSize |-> n, outputSize |-> 1, x |-> [k \in 1..n |-> k], value |-> <<v>>,
    constraints |-> <<>>, lambda |-> <<>>] : n \in 1..MaxIn, v \in {5, 6}}

ResultObject(r) ==
  [T |-> "result_t", result |-> r, warnings |-> <<>>, what |-> "",
   lastState |-> Absent]
ResultWithWarningsObject(r, w) ==
  [ResultObject(r) EXCEPT !.T = "resultWithWarnings_t", !.warnings = w]
SolverErrorObject(what, lastState) ==
  [T |-> "solverError_t", result |-> <<>>, warnings |-> <<>>, what |-> what,
   lastState |-> lastState]

\* The capsules minimum can return.
OutcomeObjects ==
  {[capsule |-> TRUE, name |-> RESULT_CAPSULE_NAME, ptr |-> ResultObject(r)] :
     r \in Results}
  \cup {[capsule |-> TRUE, name |-> RESULT_WITH_WARNINGS_CAPSULE_NAME,
         ptr |-> ResultWithWarningsObject(r, w)] : r \in Results, w \in Warnings}
  \cup {[capsule |-> TRUE, name |-> SOLVER_ERROR_CAPSULE_NAME,
         ptr |-> SolverErrorObject("failed", ls)] :
          ls \in {Absent} \cup {Present(r) : r \in Results}}

InitTd ==
  /\ FnIdle
  /\ pbInSize = 1 /\ startingPoint = Absent
  /\ argumentBounds = <<InfiniteInterval>> /\ argumentScales = <<1>>
  /\ constraints = <<>> /\ handleRefs = <<>> /\ solvers = 1
  /\ pbCall = NoPbCall
  /\ result_ = Unsolved /\ solveCalled = TRUE /\ svCall = NoSvCall
  /\ \E obj \in OutcomeObjects : outcomes = <<obj>>
  /\ OwIdle

PyDict_New == <<>>
PyDict_SetItemString(dict, key, value) == MapPut(dict, key, value)

\* toDict<result_t> (result)
toDictOfResult(result) ==
  LET d1 == PyDict_SetItemString(PyDict_New, "inputSize",
                                 PyLong(0, result.inputSize))
      d2 == PyDict_SetItemString(d1, "outputSize", PyLong(0, result.outputSize))
      d3 == PyDict_SetItemString(d2, "x", PyArray1(result.x))
      d4 == PyDict_SetItemString(d3, "value", PyArray1(result.value))
      d5 == PyDict_SetItemString(d4, "constraints", PyArray1(result.constraints))
  IN PyDict_SetItemString(d5, "lambda", PyArray1(result.lambda))

TdReturn(op, arg, ret, err, dict) ==
  [NoSvCall EXCEPT !.op = op, !.arg = arg, !.ret = ret, !.err = err,
                   !.dict = dict]

tdRest == <<result_, solveCalled, outcomes, owVars, bdVars, fnVars, pbVars>>

\* The undefined strcmp of a null name does not arise on a capsule.
ResultOf(obj) == resultConverter(obj, "differs")

\* toDict<result_t> (self, args), exported as resultToDict
resultToDict(i) ==
  /\ LET result == ResultOf(outcomes[i])
     IN IF result.ret = 0
        THEN svCall' = TdReturn("resultToDict", i, "error", result.err, <<>>)
        ELSE svCall' = TdReturn("resultToDict", i, "dict", NoErr,
                                toDictOfResult(result.address.result))
  /\ UNCHANGED tdRest

\* A list of warnings filled from its last item to its first.
WarningsListReversed(warnings) ==
  [t |-> "list",
   items |-> [i \in 1..Len(warnings) |->
                PyStr(warnings[Len(warnings) + 1 - i])]]

\* The loop of toDict<resultWithWarnings_t> over result->warnings.
WarningsList(warnings) ==
  [t |-> "list", items |-> [i \in 1..Len(warnings) |-> PyStr(warnings[i])]]

\* toDict<resultWithWarnings_t> (self, args), exported as
\* resultWithWarningsToDict
resultWithWarningsToDict(i) ==
  /\ LET base == ResultOf(outcomes[i])
         result == resultWithWarningsConverter(outcomes[i])
     IN IF base.ret = 0
        THEN svCall' = TdReturn("resultWithWarningsToDict", i, "error",
                                "1st argument must be inherited from result.",
                                <<>>)
        ELSE IF result.ret = 0
        THEN svCall' = TdReturn("resultWithWarningsToDict", i, "error",
                                result.err, <<>>)
        ELSE svCall' =
               TdReturn("resultWithWarningsToDict", i, "dict", NoErr,
                        PyDict_SetItemString(
                          toDictOfResult(base.address.result), "warnings",
                          WarningsList(result.address.warnings)))
  /\ UNCHANGED tdRest

\* toDict<solverError_t> (self, args), exported as solverErrorToDict
solverErrorToDict(i) ==
  /\ LET error == solverErrorConverter(outcomes[i])
     IN IF error.ret = 0
        THEN svCall' = TdReturn("solverErrorToDict", i, "error", error.err, <<>>)
        ELSE LET dict_error ==
                   PyDict_SetItemString(PyDict_New, "error",
                                        PyStr(error.address.what))
             IN svCall' =
                  TdReturn("solverErrorToDict", i, "dict", NoErr,
                           IF error.address.lastState.set
                           THEN PyDict_SetItemString(
                                  dict_error, "lastState",
                                  toDictOfResult(error.address.lastState.value))
                           ELSE dict_error)
  /\ UNCHANGED tdRest

NextTd ==
  \/ \E i \in 1..Len(outcomes) : resultToDict(i)
  \/ \E i \in 1..Len(outcomes) : resultWithWarningsToDict(i)
  \/ \E i \in 1..Len(outcomes) : solverErrorToDict(i)

SpecTd == InitTd /\ [][NextTd]_vars

ResultKeys == {"inputSize", "outputSize", "x", "value", "constraints", "lambda"}

\* The last call returned a dictionary.
Returned(op) == svCall.op = op /\ svCall.ret = "dict"

\* The native object of the capsule the last call was given.
GivenObject == outcomes[svCall.arg].ptr

\* C21: resultToDict returns a dictionary of exactly the six result keys;
\* resultWithWarningsToDict those and warnings, a list of one text per
\* stored warning in stored order; solverErrorToDict the key error, and
\* the key lastState exactly when the error holds a last state, whose
\* value then has the six result keys.
C21_DictionaryKeys ==
  /\ Returned("resultToDict") => DOMAIN svCall.dict = ResultKeys
  /\ Returned("resultWithWarningsToDict") =>
       /\ DOMAIN svCall.dict = ResultKeys \cup {"warnings"}
       /\ svCall.dict["warnings"].t = "list"
       /\ Len(svCall.dict["warnings"].items) = Len(GivenObject.warnings)
       /\ \A k \in 1..Len(GivenObject.warnings) :
            svCall.dict["warnings"].items[k] = PyStr(GivenObject.warnings[k])
  /\ Returned("solverErrorToDict") =>
       /\ "error" \in DOMAIN svCall.dict
       /\ DOMAIN svCall.dict \subseteq {"error", "lastState"}
       /\ ("lastState" \in DOMAIN svCall.dict) = GivenObject.lastState.set
       /\ GivenObject.lastState.set =>
            DOMAIN svCall.dict["lastState"] = ResultKeys

\* A result with two different warnings has been turned into a dictionary.
C21_Witness ==
  /\ Returned("resultWithWarningsToDict")
  /\ Len(GivenObject.warnings) = 2
  /\ GivenObject.warnings[1] # GivenObject.warnings[2]

\* The other cases are reached as well: a result, an error with a last
\* state and an error without.
DictionaryCasesReached ==
  \/ Returned("resultToDict")
  \/ Returned("solverErrorToDict") /\ GivenObject.lastState.set
  \/ Returned("solverErrorToDict") /\ ~GivenObject.lastState.set


(***************************************************************************)
(* Callables that rebind the function while it evaluates them (SpecRe).    *)
(* reent.held [o] counts the references on o besides the function's: the   *)
(* names and closures of the caller.  The argument tuple of a bind* call   *)
(* holds one more on its callable for the time of the call.  An object     *)
(* goes when nothing refers to it.                                         *)
(***************************************************************************)
ReFunctions == {"f1", "f2"}

\* The references of the function on o when its slots are as given.
SlotsBoundTo(o) ==
  (IF computeCallback_ = o THEN 1 ELSE 0)
  + (IF gradientCallback_ = o THEN 1 ELSE 0)
  + (IF jacobianCallback_ = o THEN 1 ELSE 0)

InitRe ==
  /\ kind = "DifferentiableFunction" /\ inSize = 1 /\ outSize = 1
  /\ alive = TRUE /\ status = "running" /\ lastCall = NoCall
  /\ computeCallback_ \in ReFunctions
  /\ gradientCallback_ \in ReFunctions
  /\ jacobianCallback_ \in ReFunctions \cup {Null}
  /\ refs = [o \in PyObjects |-> SlotsBoundTo(o)]
  /\ pbInSize = 0 /\ startingPoint = Absent
  /\ argumentBounds = <<>> /\ argumentScales = <<>>
  /\ constraints = <<>> /\ handleRefs = <<>> /\ solvers = 0
  /\ pbCall = NoPbCall
  /\ result_ = Unsolved /\ solveCalled = FALSE /\ outcomes = <<>>
  /\ svCall = NoSvCall
  /\ foreign = <<>> /\ deleted = <<>> /\ callbacks_ = <<>>
  /\ registry = [next |-> 1, live |-> {}, shared |-> {}]
  /\ pool_ = NoPool
  /\ proc = [build |-> "release", use |-> "none", problem |-> FALSE,
             multiplexer |-> FALSE, aborted |-> "no"]
  /\ parameters = EmptyMap /\ stateParameters = EmptyMap /\ pmCall = NoPmCall
  /\ access = NoAccess /\ views = NoViews /\ converted = NoConversion
  /\ solverState = NoState /\ stCall = NoStCall /\ built = NoBuilt
  /\ \E held \in [PyObjects -> {0, 1}] :
       /\ held["raiser"] = 0 /\ held["obj"] = 1 /\ held["notcallable"] = 1
       /\ reent = [NoReent EXCEPT !.held = held]

reRest == <<fnVars, pbVars, result_, solveCalled, outcomes, svCall, owVars,
            pmVars, evVars, converted, solverState, stCall, built>>

\* The references on the object o.
Py_REFCNT(o) == refs[o] + reent.held[o]

\* PyEval_CallObject (callback, arglist) in impl_compute, impl_gradient
\* and impl_jacobian: the callable of the slot starts to execute.  Nothing
\* takes a reference on it for the time of the call.
enterCallable(callback) ==
  /\ Callable /\ reent.running = Null
  /\ callback # Null /\ PyFunction_Check(callback)
  /\ reent' = [reent EXCEPT !.running = callback]
  /\ UNCHANGED reRest

\* The callable returns: checkPythonError and the Py_DECREF of the
\* argument list follow.
leaveCallable ==
  /\ reent.running # Null
  /\ reent' = [reent EXCEPT !.running = Null, !.returned = TRUE]
  /\ UNCHANGED reRest

\* The callable that executes can pass itself, and what the caller's names
\* and closures refer to.
InReach(o) == reent.running # Null /\ (o = reent.running \/ reent.held[o] > 0)

NextRe ==
  \/ enterCallable(computeCallback_)
  \/ enterCallable(gradientCallback_)
  \/ enterCallable(jacobianCallback_)
  \/ \E o \in PyObjects : InReach(o) /\ bindCompute(o)
  \/ \E o \in PyObjects : InReach(o) /\ bindGradient(o)
  \/ \E o \in PyObjects : InReach(o) /\ bindJacobian(o)
  \/ leaveCallable

SpecRe == InitRe /\ [][NextRe]_vars

\* C29: a callable that rebinds a slot of the function while the function
\* evaluates it is not destroyed before the evaluation returns, and after
\* the evaluation the function holds one reference per bound slot, on the
\* callable now bound.
C29_RebindingInsideIsSafe ==
  /\ reent.running # Null => Py_REFCNT(reent.running) > 0
  /\ (reent.returned /\ reent.running = Null) =>
       \A o \in PyObjects : refs[o] = SlotsBoundTo(o)

\* What does hold: the balance of the references after the evaluation, and
\* during it.
BalanceAfterRebinding ==
  \A o \in PyObjects : refs[o] = SlotsBoundTo(o)

\* What does hold as well: a callable that binds itself again is not
\* destroyed, the argument tuple of the call refers to it.
SelfRebindKeepsCallable ==
  (reent.running # Null /\ lastCall.ret = "ok"
     /\ lastCall.obj = reent.running) =>
    Py_REFCNT(reent.running) > 0

====
